---- MODULE Spec2Model ----
(***************************************************************************)
(* A model of the DSL execution core of ScriptRunner: the timed-effects    *)
(* manager, the state-machine manager, the event manager, the command      *)
(* executors, the random manager, the state manager with its save file, and *)
(* the turn loop that drives them.                                          *)
(*                                                                         *)
(* Python strings of the DSL (actions, conditions, triggers) are sequences *)
(* of one-character strings, so that prefix tests, slices and number       *)
(* parsing are computed the way the code computes them.  Python values of  *)
(* dynamic type are tagged records (IntVal, StrVal, NoneVal).  A raised    *)
(* exception is an explicit outcome of the operator that models the        *)
(* raising function.                                                       *)
(***************************************************************************)
EXTENDS Integers, Sequences, FiniteSets, TLC

VARIABLES
    now,              \* time.time(), in whole clock units
    active_effects,   \* EffectsManager.active_effects: instances in dict (insertion) order
    effect_runs,      \* per effect: how often its apply / tick / remove actions ran since it was last applied afresh
    effect_hist,      \* per effect: bookkeeping since it was last applied afresh (update calls seen, parsed duration, touched)
    variables,        \* StateManager.variables
    flags,            \* StateManager.flags
    current_scene,    \* StateManager.current_scene
    state_machines,   \* StateMachineManager.state_machines (names of the loaded machines)
    sm_trace,         \* what the last state-machine operation did, per machine
    scheduled_events, \* EventManager.scheduled_events (the pool, in pool order)
    fired,            \* ids of the events fired by the last scheduled check, in firing order
    reactive_events,  \* EventManager.reactive_events (the pool, in pool order)
    reacted,          \* ids of the events whose actions the last reactive check executed, in order
    random_tables,    \* RandomManager.random_tables
    state_effects,    \* StateManager.active_effects
    save_file,        \* the content of the file at StateManager.save_file
    effect_defs,      \* Parser.effects: per defined effect the `duration` its definition dict holds
    object_defs,      \* Parser.objects: per defined object the value of its `health` state
    aliased,          \* names of the StateManager effects whose stored dict is the parser's definition dict itself
    executed,         \* tags of the commands run by the last execute_commands call, in order
    loop,             \* the turn loop: program counter and locals of _run_game_loop (of scene_data its choices), and its failed iterations in a row
    turn_log,         \* the engine steps the current loop iteration has run, in order
    last_op           \* the operation the last step performed, with its arguments and result

vars == <<now, active_effects, effect_runs, effect_hist, variables, flags, current_scene,
          state_machines, sm_trace, scheduled_events, fired, reactive_events, reacted, random_tables, state_effects, save_file,
          effect_defs, object_defs, aliased, executed, loop,
          turn_log, last_op>>

-----------------------------------------------------------------------------
(* Bounds of the model. *)

MaxTime == 2
MaxUpdates == 3
MaxErrors == 6

-----------------------------------------------------------------------------
(* Python strings and values. *)

Digit == <<"0", "1", "2", "3", "4", "5", "6", "7", "8", "9">>

IsDigit(c) == \E i \in 1..10 : Digit[i] = c

DigitValue(c) == (CHOOSE i \in 1..10 : Digit[i] = c) - 1

StartsWith(s, p) == Len(s) >= Len(p) /\ SubSeq(s, 1, Len(p)) = p

\* s[n:]
Drop(s, n) == IF n >= Len(s) THEN << >> ELSE SubSeq(s, n + 1, Len(s))

RECURSIVE LStrip(_)
LStrip(s) == IF s # << >> /\ Head(s) = " " THEN LStrip(Tail(s)) ELSE s

RECURSIVE RStrip(_)
RStrip(s) == IF s # << >> /\ s[Len(s)] = " " THEN RStrip(SubSeq(s, 1, Len(s) - 1)) ELSE s

\* s.strip()
Strip(s) == RStrip(LStrip(s))

RECURSIVE DigitsValue(_)
DigitsValue(s) == IF s = << >> THEN 0 ELSE DigitsValue(SubSeq(s, 1, Len(s) - 1)) * 10 + DigitValue(s[Len(s)])

\* int(s) and float(s) on the decimal strings of the model: surrounding blanks are
\* ignored; anything but a non-empty run of digits raises ValueError.
ParseNumber(s) ==
    LET t == Strip(s) IN
    IF t # << >> /\ \A i \in 1..Len(t) : IsDigit(t[i])
    THEN [ok |-> TRUE, n |-> DigitsValue(t)]
    ELSE [ok |-> FALSE, n |-> 0]

\* s.split(): the first whitespace-separated token of s, << >> when there is none
RECURSIVE TakeWord(_)
TakeWord(s) == IF s = << >> \/ Head(s) = " " THEN << >> ELSE <<Head(s)>> \o TakeWord(Tail(s))

FirstToken(s) == TakeWord(LStrip(s))

IntVal(n) == [kind |-> "int", n |-> n, s |-> << >>]
StrVal(s) == [kind |-> "str", n |-> 0, s |-> s]
NoneVal == [kind |-> "none", n |-> 0, s |-> << >>]

-----------------------------------------------------------------------------
(* The parsed script: what the parser's accessors return. *)

s_poisoned == <<"p", "o", "i", "s", "o", "n", "e", "d">>
s_blessed == <<"b", "l", "e", "s", "s", "e", "d">>
s_unknown == <<"n", "o", "n", "e">>
s_player == <<"p", "l", "a", "y", "e", "r">>
s_wolf == <<"w", "o", "l", "f">>
s_aura == <<"a", "u", "r", "a">>
s_strength == <<"s", "t", "r", "e", "n", "g", "t", "h">>
s_speed == <<"s", "p", "e", "e", "d">>

\* parser.get_effect: the `effects` section of the script.  poisoned lasts 2 turns
\* and ticks once per clock unit, blessed declares its duration as the string
\* "2 turns" and has no tick, aura has the duration 0 and neither tick nor
\* actions.  An absent tick is the empty string.  The modifiers of the stats
\* are strings with a prefix (*, +, -) or plain numbers.
Effects ==
    [e \in {s_poisoned, s_blessed, s_aura} |->
        IF e = s_aura
        THEN [duration |-> IntVal(0), tick |-> << >>, tick_rate |-> 1, apply |-> << >>, remove |-> << >>,
              modifiers |-> (s_strength :> IntVal(2)) @@ (s_speed :> StrVal(<<"+", "2">>))]
        ELSE IF e = s_poisoned
        THEN [duration |-> IntVal(2), tick |-> <<"p", "l", "a", "y", "e", "r", ".", "h", "e", "a", "l", "t", "h", " ", "-", "=", " ", "5">>, tick_rate |-> 1,
              apply |-> <<<<"a", "d", "d", "_", "f", "l", "a", "g", ":", "s", "i", "c", "k">>>>, remove |-> <<<<"r", "e", "m", "o", "v", "e", "_", "f", "l", "a", "g", ":", "s", "i", "c", "k">>>>,
              modifiers |-> (s_strength :> StrVal(<<"-", "1">>)) @@ (s_speed :> StrVal(<<"*", "1", ".", "5">>))]
        ELSE [duration |-> StrVal(<<"2", " ", "t", "u", "r", "n", "s">>), tick |-> << >>, tick_rate |-> 1,
              apply |-> << >>, remove |-> <<<<"a", "d", "d", "_", "f", "l", "a", "g", ":", "c", "a", "l", "m">>>>,
              modifiers |-> (s_strength :> StrVal(<<"*", "1", ".", "5">>))]]

EffectNames == DOMAIN Effects

\* the effects with a declared duration that is not 0
TimedEffectNames == {s_poisoned, s_blessed}

\* the `health` state the `define_object` section declares, per object that has one
ObjectHealth == (s_wolf :> 15)

-----------------------------------------------------------------------------
(* StateManager: the variable store and the flag set. *)

\* StateManager.get_variable(key, default)
get_variable(vs, key, default) == IF key \in DOMAIN vs THEN vs[key] ELSE default

\* StateManager.set_variable(key, value)
set_variable(vs, key, value) == [k \in DOMAIN vs \cup {key} |-> IF k = key THEN value ELSE vs[k]]

\* set_flag that flips the flag
set_flag_toggle(fs, flag) == IF flag \in fs THEN fs \ {flag} ELSE fs \cup {flag}

\* StateManager.set_flag / clear_flag
set_flag(fs, flag) == fs \cup {flag}

clear_flag(fs, flag) == fs \ {flag}

\* A store is the state the executors work on; raised tells that the call ended in an exception.
Store(vs, fs, sc) == [variables |-> vs, flags |-> fs, scene |-> sc, raised |-> FALSE]

-----------------------------------------------------------------------------
(* ScriptCommandExecutor._execute_set and ActionExecutor.execute_action. *)

BoolVal(b) == [kind |-> "bool", n |-> IF b THEN 1 ELSE 0, s |-> << >>]
FloatVal(s) == [kind |-> "float", n |-> 0, s |-> s]

Upper == <<"A", "B", "C", "D", "E", "F", "G", "H", "I", "J", "K", "L", "M", "N", "O", "P", "Q", "R", "S", "T", "U", "V", "W", "X", "Y", "Z">>
Lowercase == <<"a", "b", "c", "d", "e", "f", "g", "h", "i", "j", "k", "l", "m", "n", "o", "p", "q", "r", "s", "t", "u", "v", "w", "x", "y", "z">>

LowerChar(c) == IF \E i \in 1..26 : Upper[i] = c THEN Lowercase[CHOOSE i \in 1..26 : Upper[i] = c] ELSE c

\* s.lower()
Lower(s) == [i \in 1..Len(s) |-> LowerChar(s[i])]

\* position of the first c in s, 0 when there is none
IndexOf(s, c) == IF \E i \in 1..Len(s) : s[i] = c THEN CHOOSE i \in 1..Len(s) : s[i] = c /\ \A j \in 1..(i - 1) : s[j] # c ELSE 0

\* s.isdigit()
IsDigits(s) == s # << >> /\ \A i \in 1..Len(s) : IsDigit(s[i])

\* s.replace('.', '')
RECURSIVE RemoveDots(_)
RemoveDots(s) == IF s = << >> THEN << >> ELSE IF Head(s) = "." THEN RemoveDots(Tail(s)) ELSE <<Head(s)>> \o RemoveDots(Tail(s))

s_true == <<"t", "r", "u", "e">>
s_false == <<"f", "a", "l", "s", "e">>

\* the literal a `set` expression's right-hand side denotes (lines 119-131)
ParseSetValue(value_str) ==
    IF Lower(value_str) = s_true THEN BoolVal(TRUE)
    ELSE IF Lower(value_str) = s_false THEN BoolVal(FALSE)
    ELSE IF IsDigits(value_str) THEN IntVal(DigitsValue(value_str))
    ELSE IF IsDigits(RemoveDots(value_str)) THEN FloatVal(value_str)
    ELSE IF Len(value_str) >= 1 /\ Head(value_str) = "\"" /\ value_str[Len(value_str)] = "\""
         THEN StrVal(IF Len(value_str) >= 2 THEN SubSeq(value_str, 2, Len(value_str) - 1) ELSE << >>)
    ELSE StrVal(value_str)

\* ScriptCommandExecutor._execute_set(expression): 'name = value'
ExecuteSet(st, expression) ==
    LET eq == IndexOf(expression, "=") IN
    IF eq = 0 THEN st
    ELSE LET key == Strip(SubSeq(expression, 1, eq - 1))
             value_str == Strip(Drop(expression, eq))
         IN [st EXCEPT !.variables = set_variable(st.variables, key, ParseSetValue(value_str))]

p_set == <<"s", "e", "t", ":">>
p_add_flag == <<"a", "d", "d", "_", "f", "l", "a", "g", ":">>
p_remove_flag == <<"r", "e", "m", "o", "v", "e", "_", "f", "l", "a", "g", ":">>
p_clear_flag == <<"c", "l", "e", "a", "r", "_", "f", "l", "a", "g", ":">>
p_broadcast == <<"b", "r", "o", "a", "d", "c", "a", "s", "t", ":">>
p_log == <<"l", "o", "g", ":">>

\* ActionExecutor.execute_action(action): the store after the action.  A broadcast
\* calls add_broadcast_message, which the StateManager does not define: the
\* AttributeError is logged and raised again.
ExecuteAction(st, action) ==
    IF StartsWith(action, p_set) THEN ExecuteSet(st, Strip(Drop(action, 4)))
    ELSE IF StartsWith(action, p_add_flag) THEN [st EXCEPT !.flags = set_flag(st.flags, Strip(Drop(action, 9)))]
    ELSE IF StartsWith(action, p_remove_flag) \/ StartsWith(action, p_clear_flag)
         THEN LET flag == IF StartsWith(action, p_remove_flag) THEN Strip(Drop(action, 12)) ELSE Strip(Drop(action, 9))
              IN [st EXCEPT !.flags = clear_flag(st.flags, flag)]
    ELSE IF StartsWith(action, p_broadcast) THEN [st EXCEPT !.raised = TRUE]
    ELSE st

\* ActionExecutor.execute_actions / the callers' `for action in actions` loops:
\* the actions in order, stopping at the first that raises.
RECURSIVE ExecuteActions(_, _)
ExecuteActions(st, actions) ==
    IF actions = << >> \/ st.raised THEN st
    ELSE ExecuteActions(ExecuteAction(st, Head(actions)), Tail(actions))

-----------------------------------------------------------------------------
(* EffectsManager. *)

\* parser.get_effect(name): the definition, or nothing
HasEffect(name) == name \in EffectNames

\* index of the instance called name in the dict, 0 when it is not active
ActiveIndex(effs, name) == IF \E i \in 1..Len(effs) : effs[i].name = name THEN CHOOSE i \in 1..Len(effs) : effs[i].name = name ELSE 0

IsActive(effs, name) == ActiveIndex(effs, name) # 0

\* position of the first occurrence of p in s, 0 when there is none
FindSub(s, p) ==
    IF \E i \in 1..(Len(s) - Len(p) + 1) : SubSeq(s, i, i + Len(p) - 1) = p
    THEN CHOOSE i \in 1..(Len(s) - Len(p) + 1) : SubSeq(s, i, i + Len(p) - 1) = p /\ \A j \in 1..(i - 1) : SubSeq(s, j, j + Len(p) - 1) # p
    ELSE 0

\* the duration a new instance gets (apply_effect, lines 46-59): an integer as it
\* is, of a string the leading integer, 0 for anything else
ParseDuration(duration) ==
    IF duration.kind = "str"
    THEN LET part == FirstToken(duration.s) IN
         IF part # << >> /\ ParseNumber(part).ok THEN ParseNumber(part).n ELSE 0
    ELSE IF duration.kind = "int" THEN duration.n
    ELSE 0

\* _parse_damage_expression: int(damage_str), 5 when that raises ValueError
parse_damage_expression(damage_str) == IF ParseNumber(damage_str).ok THEN ParseNumber(damage_str).n ELSE 5

s_health == <<"h", "e", "a", "l", "t", "h">>
p_player_health == <<"p", "l", "a", "y", "e", "r", ".", "h", "e", "a", "l", "t", "h">>

Max(a, b) == IF a >= b THEN a ELSE b

\* _execute_single_action(action, effect_data); every exception is caught and logged
execute_single_action(st, action) ==
    IF StartsWith(action, p_player_health)
    THEN LET current_health == get_variable(st.variables, s_health, IntVal(100))
             minus == FindSub(action, <<"-", "=">>)
             plus == FindSub(action, <<"+", "=">>)
         IN IF minus # 0
            THEN IF current_health.kind \in {"int", "bool"}
                 THEN [st EXCEPT !.variables = set_variable(st.variables, s_health,
                          IntVal(Max(0, current_health.n - parse_damage_expression(Strip(Drop(action, minus + 1))))))]
                 ELSE st
            ELSE IF plus # 0
            THEN IF current_health.kind \in {"int", "bool"}
                 THEN [st EXCEPT !.variables = set_variable(st.variables, s_health,
                          IntVal(current_health.n + parse_damage_expression(Strip(Drop(action, plus + 1)))))]
                 ELSE st
            ELSE st
    ELSE [ExecuteAction(st, action) EXCEPT !.raised = FALSE]

\* _execute_effect_actions(effect_data, action_type) for a list of actions
RECURSIVE execute_effect_actions(_, _)
execute_effect_actions(st, actions) ==
    IF actions = << >> THEN st
    ELSE execute_effect_actions(execute_single_action(st, Head(actions)), Tail(actions))

RemoveAt(seq, i) == SubSeq(seq, 1, i - 1) \o SubSeq(seq, i + 1, Len(seq))

\* remove_effect(name) on the manager's state m = [effs, st, runs]: the remove
\* actions run, then the instance is deleted
remove_effect(m, name) ==
    IF IsActive(m.effs, name)
    THEN [m EXCEPT !.st = execute_effect_actions(m.st, Effects[name].remove),
                   !.runs[name].remove = @ + 1,
                   !.effs = RemoveAt(m.effs, ActiveIndex(m.effs, name))]
    ELSE m

\* the first loop of update_effects from instance i on: durations are decremented,
\* expiring instances collected, tick actions run.  Comparing a duration that is
\* not a number with 0 raises TypeError, a tick_rate of 0 ZeroDivisionError: the
\* loop stops there and update_effects ends without its second loop.
RECURSIVE UpdateScan(_, _, _)
UpdateScan(m, i, current_time) ==
    IF i > Len(m.effs) THEN m
    ELSE LET effect_data == m.effs[i]
             def == Effects[effect_data.name]
         IN IF effect_data.duration.kind # "int" THEN [m EXCEPT !.raised = TRUE]
            ELSE LET counted == effect_data.duration.n > 0
                     left == IF counted THEN effect_data.duration.n - 1 ELSE effect_data.duration.n
                     m1 == [m EXCEPT !.effs[i].duration = IntVal(left)]
                 IN IF counted /\ left <= 0
                    THEN UpdateScan([m1 EXCEPT !.expired = Append(@, effect_data.name)], i + 1, current_time)
                    ELSE IF def.tick = << >> THEN UpdateScan(m1, i + 1, current_time)
                    ELSE IF def.tick_rate = 0 THEN [m1 EXCEPT !.raised = TRUE]
                    ELSE LET elapsed_ticks == (current_time - effect_data.start_time) \div def.tick_rate IN
                         IF elapsed_ticks > effect_data.last_tick
                         THEN UpdateScan([m1 EXCEPT !.st = execute_single_action(m1.st, def.tick),
                                                    !.runs[effect_data.name].tick = @ + 1,
                                                    !.effs[i].last_tick = elapsed_ticks],
                                         i + 1, current_time)
                         ELSE UpdateScan(m1, i + 1, current_time)

\* the second loop of update_effects: remove_effect for every expired name, in order
RECURSIVE RemoveExpired(_, _)
RemoveExpired(m, names) ==
    IF names = << >> THEN m ELSE RemoveExpired(remove_effect(m, Head(names)), Tail(names))

\* update_effects() as a function of the manager's state
update_effects(effs, st, runs, current_time) ==
    LET m0 == [effs |-> effs, st |-> st, runs |-> runs, expired |-> << >>, raised |-> FALSE]
        m1 == UpdateScan(m0, 1, current_time)
    IN IF m1.raised THEN m1 ELSE RemoveExpired(m1, m1.expired)

\* apply_effect(name, target) with a plausible slip: the refresh branch builds the
\* instance anew, so the start time, target and tick index are reset and the apply
\* actions run again
apply_effect_reapplying(effs, st, runs, effect_name, target, current_time) ==
    IF ~HasEffect(effect_name) THEN [effs |-> effs, st |-> st, runs |-> runs, result |-> FALSE, refreshed |-> FALSE]
    ELSE LET instance == [name |-> effect_name, duration |-> IntVal(ParseDuration(Effects[effect_name].duration)),
                          start_time |-> current_time,
                          target |-> IF target = << >> THEN s_player ELSE target,
                          last_tick |-> 0]
         IN [effs |-> IF IsActive(effs, effect_name) THEN [effs EXCEPT ![ActiveIndex(effs, effect_name)] = instance]
                      ELSE Append(effs, instance),
             st |-> execute_effect_actions(st, Effects[effect_name].apply),
             runs |-> [runs EXCEPT ![effect_name].apply = @ + 1],
             result |-> TRUE, refreshed |-> IsActive(effs, effect_name)]

\* apply_effect(name, target) as a function of the manager's state: an unknown
\* effect is refused; an active one gets the declared duration, as declared; a new
\* instance gets the parsed duration, the start time and the target, is
\* registered, and its apply actions run
apply_effect(effs, st, runs, effect_name, target, current_time) ==
    IF ~HasEffect(effect_name) THEN [effs |-> effs, st |-> st, runs |-> runs, result |-> FALSE, refreshed |-> FALSE]
    ELSE IF IsActive(effs, effect_name)
    THEN [effs |-> [effs EXCEPT ![ActiveIndex(effs, effect_name)].duration = Effects[effect_name].duration],
          st |-> st, runs |-> runs, result |-> TRUE, refreshed |-> TRUE]
    ELSE LET instance == [name |-> effect_name, duration |-> IntVal(ParseDuration(Effects[effect_name].duration)),
                          start_time |-> current_time,
                          target |-> IF target = << >> THEN s_player ELSE target,
                          last_tick |-> 0]
         IN [effs |-> Append(effs, instance),
             st |-> execute_effect_actions(st, Effects[effect_name].apply),
             runs |-> [runs EXCEPT ![effect_name] = [apply |-> 1, tick |-> 0, remove |-> 0]],
             result |-> TRUE, refreshed |-> FALSE]

-----------------------------------------------------------------------------
(* The effects manager driven through its public operations. *)

smVars == <<state_machines, sm_trace>>
evVars == <<scheduled_events, fired, reactive_events, reacted>>
cmdVars == <<executed>>
rndVars == <<random_tables>>
persistVars == <<state_effects, save_file>>
parserVars == <<effect_defs, object_defs>>
defVars == <<effect_defs, object_defs, aliased>>
loopVars == <<loop, turn_log>>
effVars == <<active_effects, effect_runs, effect_hist>>
storeVars == <<variables, flags, current_scene>>

Op(op, arg, result) == [op |-> op, arg |-> arg, result |-> result]

\* os.path.exists(save_file) is false
NoFile == [exists |-> FALSE]

NoOp == Op("none", << >>, "none")

BoolStr(b) == IF b THEN "true" ELSE "false"

InitStore == variables = << >> /\ flags = {} /\ current_scene = << >>

InitEffects ==
    /\ now = 0
    /\ active_effects = << >>
    /\ effect_runs = [e \in EffectNames |-> [apply |-> 0, tick |-> 0, remove |-> 0]]
    /\ effect_hist = [e \in EffectNames |-> [updates |-> 0, d |-> -1, touched |-> FALSE]]

InitMachines == state_machines = << >> /\ sm_trace = << >>

InitEvents == scheduled_events = << >> /\ fired = << >> /\ reactive_events = << >> /\ reacted = << >>

InitCommands == executed = << >>

InitRandom == random_tables = << >>

\* no effect in the state manager, no save file
InitPersist == state_effects = << >> /\ save_file = NoFile

\* the definitions as the parser loaded them; no StateManager effect shares one yet
InitDefs ==
    /\ effect_defs = [e \in EffectNames |-> Effects[e].duration]
    /\ object_defs = ObjectHealth
    /\ aliased = {}

InitLoop ==
    /\ loop = [pc |-> "idle", current_scene_id |-> << >>, rerender |-> TRUE, invalid_choice_count |-> 0, scene_data |-> << >>, errors |-> 0]
    /\ turn_log = << >>

\* time passes between two calls
AdvanceTime ==
    /\ now < MaxTime
    /\ now' = now + 1
    /\ last_op' = Op("advance_time", << >>, "none")
    /\ UNCHANGED <<defVars, rndVars, persistVars, effVars, storeVars, smVars, evVars, cmdVars, loopVars>>

\* EffectsManager.apply_effect(effect_name, target)
ApplyEffect(effect_name, target) ==
    LET r == apply_effect(active_effects, Store(variables, flags, current_scene), effect_runs, effect_name, target, now) IN
    /\ active_effects' = r.effs
    /\ variables' = r.st.variables
    /\ flags' = r.st.flags
    /\ current_scene' = r.st.scene
    /\ effect_runs' = r.runs
    /\ effect_hist' = IF ~r.result THEN effect_hist
                      ELSE IF r.refreshed THEN [effect_hist EXCEPT ![effect_name].touched = TRUE]
                      ELSE [effect_hist EXCEPT ![effect_name] =
                               [updates |-> 0, d |-> ParseDuration(Effects[effect_name].duration), touched |-> FALSE]]
    /\ last_op' = Op(IF r.refreshed THEN "apply_effect_refresh" ELSE "apply_effect", effect_name, BoolStr(r.result))
    /\ UNCHANGED <<defVars, rndVars, persistVars, now, smVars, evVars, cmdVars, loopVars>>

\* EffectsManager.remove_effect(effect_name)
RemoveEffect(effect_name) ==
    LET m == remove_effect([effs |-> active_effects, st |-> Store(variables, flags, current_scene), runs |-> effect_runs], effect_name) IN
    /\ active_effects' = m.effs
    /\ variables' = m.st.variables
    /\ flags' = m.st.flags
    /\ current_scene' = m.st.scene
    /\ effect_runs' = m.runs
    /\ effect_hist' = IF effect_name \in EffectNames /\ IsActive(active_effects, effect_name)
                      THEN [effect_hist EXCEPT ![effect_name].touched = TRUE] ELSE effect_hist
    /\ last_op' = Op("remove_effect", effect_name, BoolStr(IsActive(active_effects, effect_name)))
    /\ UNCHANGED <<defVars, rndVars, persistVars, now, smVars, evVars, cmdVars, loopVars>>

\* EffectsManager.update_effects()
UpdateEffects ==
    LET m == update_effects(active_effects, Store(variables, flags, current_scene), effect_runs, now) IN
    /\ \A e \in EffectNames : effect_hist[e].updates < MaxUpdates
    /\ active_effects' = m.effs
    /\ variables' = m.st.variables
    /\ flags' = m.st.flags
    /\ current_scene' = m.st.scene
    /\ effect_runs' = m.runs
    /\ effect_hist' = [e \in EffectNames |-> IF effect_hist[e].d >= 0 THEN [effect_hist[e] EXCEPT !.updates = @ + 1] ELSE effect_hist[e]]
    /\ last_op' = Op("update_effects", << >>, IF m.raised THEN "raise" ELSE "none")
    /\ UNCHANGED <<defVars, rndVars, persistVars, now, smVars, evVars, cmdVars, loopVars>>

InitE == InitEffects /\ InitStore /\ InitMachines /\ InitEvents /\ InitCommands /\ InitRandom /\ InitPersist /\ InitDefs /\ InitLoop /\ last_op = NoOp

NextE ==
    \/ AdvanceTime
    \/ \E effect_name \in TimedEffectNames \cup {s_unknown}, target \in {<< >>, s_wolf} : ApplyEffect(effect_name, target)
    \/ \E effect_name \in TimedEffectNames \cup {s_unknown} : RemoveEffect(effect_name)
    \/ UpdateEffects

SpecEffects == InitE /\ [][NextE]_vars

-----------------------------------------------------------------------------
(* Claims about the effects manager. *)

\* C1: an effect applied with duration d > 0 and neither re-applied nor explicitly
\* removed since is still active after each of the first d - 1 calls of
\* update_effects, and after the d-th call it is absent from the active set and
\* its remove actions have run exactly once.
C1_ExpiresAfterDuration ==
    \A e \in EffectNames :
        (effect_hist[e].d > 0 /\ ~effect_hist[e].touched) =>
            IF effect_hist[e].updates < effect_hist[e].d
            THEN IsActive(active_effects, e)
            ELSE ~IsActive(active_effects, e) /\ effect_runs[e].remove = 1

\* C10: apply_effect for an effect that is already active only refreshes its
\* remaining duration: the apply actions do not run again (the run counts and the
\* store are unchanged) and the instance keeps its start time, target and tick
\* index; no other instance changes.
C10_RefreshOnlyDuration ==
    [][last_op'.op = "apply_effect_refresh" =>
        LET i == ActiveIndex(active_effects, last_op'.arg) IN
        /\ i # 0
        /\ active_effects' = [active_effects EXCEPT ![i].duration = Effects[last_op'.arg].duration]
        /\ effect_runs' = effect_runs
        /\ UNCHANGED storeVars]_vars

\* C10 witness: an effect that has ticked, was started earlier and targets the wolf
\* has just been refreshed
C10_Witness ==
    /\ last_op.op = "apply_effect_refresh"
    /\ \E i \in 1..Len(active_effects) :
        /\ active_effects[i].name = last_op.arg
        /\ active_effects[i].last_tick > 0
        /\ active_effects[i].start_time < now
        /\ active_effects[i].target = s_wolf
        /\ effect_runs[last_op.arg].apply = 1

\* the instance called name in the dict effs (it is active)
InstanceOf(effs, name) == effs[ActiveIndex(effs, name)]

\* C11: on an update in which an active effect does not expire, its tick action
\* runs if and only if floor((now - start) / tick_rate) exceeds the effect's last
\* tick index, and the tick index is then that value; on the update in which the
\* effect expires, its remove actions run and its tick action does not.
C11_TickOrRemove ==
    [][last_op'.op = "update_effects" =>
        \A i \in 1..Len(active_effects) :
            LET effect_data == active_effects[i]
                name == effect_data.name
                elapsed_ticks == (now - effect_data.start_time) \div Effects[name].tick_rate
                ticked == effect_runs'[name].tick = effect_runs[name].tick + 1
            IN IF effect_data.duration = IntVal(1)
               THEN /\ effect_runs'[name].remove = effect_runs[name].remove + 1
                    /\ effect_runs'[name].tick = effect_runs[name].tick
               ELSE Effects[name].tick # << >> =>
                    /\ ticked <=> elapsed_ticks > effect_data.last_tick
                    /\ ~ticked => effect_runs'[name].tick = effect_runs[name].tick
                    /\ ticked => /\ IsActive(active_effects', name)
                                 /\ InstanceOf(active_effects', name).last_tick = elapsed_ticks]_vars

-----------------------------------------------------------------------------
(* The script's commands, scenes and objects. *)

t_set == <<"s", "e", "t">>
t_set_flag == <<"s", "e", "t", "_", "f", "l", "a", "g">>
t_clear_flag == <<"c", "l", "e", "a", "r", "_", "f", "l", "a", "g">>
t_goto == <<"g", "o", "t", "o">>
t_if == <<"i", "f">>
t_apply_effect == <<"a", "p", "p", "l", "y", "_", "e", "f", "f", "e", "c", "t">>
t_remove_effect == <<"r", "e", "m", "o", "v", "e", "_", "e", "f", "f", "e", "c", "t">>
t_dance == <<"d", "a", "n", "c", "e">>

\* a tagged single-key command record {tag: arg}
Cmd(tag, arg) == [tag |-> tag, arg |-> arg, cond |-> << >>, then |-> << >>, else |-> << >>, dict |-> TRUE]

\* {if: {if: cond, then: [...], else: [...]}}
IfCmd(cond, then, else) == [tag |-> t_if, arg |-> << >>, cond |-> cond, then |-> then, else |-> else, dict |-> TRUE]

\* {if: "cond"}: a conditional whose value is a bare string instead of a mapping
BareIfCmd(cond) == [tag |-> t_if, arg |-> cond, cond |-> << >>, then |-> << >>, else |-> << >>, dict |-> FALSE]

s_hall == <<"h", "a", "l", "l">>
s_yard == <<"y", "a", "r", "d">>
s_lamp == <<"l", "a", "m", "p">>
s_lit == <<"l", "i", "t">>
s_present == <<"p", "r", "e", "s", "e", "n", "t">>
s_power == <<"p", "o", "w", "e", "r">>
s_key == <<"k", "e", "y">>
s_gold == <<"g", "o", "l", "d">>
s_inventory == <<"i", "n", "v", "e", "n", "t", "o", "r", "y">>

\* parser.get_object: the `define_object` section
Objects == [o \in {s_lamp} |-> [states |-> <<[name |-> s_lit, value |-> TRUE]>>]]

\* the objects each scene lists (scene['objects'])
SceneObjects ==
    [sc \in {s_hall, s_yard} |->
        IF sc = s_hall THEN <<[ref |-> s_lamp, spawn_condition |-> <<"h", "a", "s", "_", "f", "l", "a", "g", "(", "p", "o", "w", "e", "r", ")">>]>> ELSE << >>]

-----------------------------------------------------------------------------
(* ConditionEvaluator. *)

RECURSIVE IntToStr(_)
\* str(n) of a non-negative integer
IntToStr(n) == IF n < 10 THEN <<Digit[n + 1]>> ELSE IntToStr(n \div 10) \o <<Digit[(n % 10) + 1]>>

\* str(value)
ToStr(v) ==
    IF v.kind = "int" THEN IntToStr(v.n)
    ELSE IF v.kind = "bool" THEN (IF v.n = 1 THEN <<"T", "r", "u", "e">> ELSE <<"F", "a", "l", "s", "e">>)
    ELSE IF v.kind = "none" THEN <<"N", "o", "n", "e">>
    ELSE v.s

\* float(value): a number, or an exception (ValueError for a string that is no
\* number, TypeError for None); the floats of the model have a zero fraction
ToFloat(v) ==
    IF v.kind \in {"int", "bool"} THEN [ok |-> TRUE, n |-> v.n]
    ELSE IF v.kind = "str" THEN ParseNumber(v.s)
    ELSE IF v.kind = "float" /\ IndexOf(v.s, ".") > 1 /\ \A i \in (IndexOf(v.s, ".") + 1)..Len(v.s) : v.s[i] = "0"
         THEN [ok |-> TRUE, n |-> DigitsValue(SubSeq(v.s, 1, IndexOf(v.s, ".") - 1))]
    ELSE [ok |-> FALSE, n |-> 0]

RECURSIVE LStripChars(_, _)
LStripChars(s, cs) == IF s # << >> /\ Head(s) \in cs THEN LStripChars(Tail(s), cs) ELSE s

RECURSIVE RStripChars(_, _)
\* s.rstrip(chars)
RStripChars(s, cs) == IF s # << >> /\ s[Len(s)] \in cs THEN RStripChars(SubSeq(s, 1, Len(s) - 1), cs) ELSE s

\* s.strip(chars)
StripChars(s, cs) == RStripChars(LStripChars(s, cs), cs)

Quotes == {"\"", "'"}

\* _get_value(expression): the variable's value, or the expression itself
get_value(st, expression) ==
    IF Strip(expression) \in DOMAIN st.variables THEN st.variables[Strip(expression)] ELSE StrVal(Strip(expression))

CondResult(v) == [v |-> v, raised |-> FALSE]

CondRaise == [v |-> FALSE, raised |-> TRUE]

\* an ordered comparison: float(left) op float(right), or the exception of float()
Compare(st, condition, op) ==
    LET at == FindSub(condition, op)
        left_value == ToFloat(get_value(st, SubSeq(condition, 1, at - 1)))
        right_value == ToFloat(get_value(st, Drop(condition, at + Len(op) - 1)))
    IN IF ~left_value.ok \/ ~right_value.ok THEN CondRaise
       ELSE IF op = <<">", "=">> THEN CondResult(left_value.n >= right_value.n)
       ELSE IF op = <<"<", "=">> THEN CondResult(left_value.n <= right_value.n)
       ELSE IF op = <<">">> THEN CondResult(left_value.n > right_value.n)
       ELSE CondResult(left_value.n < right_value.n)

\* the part of a has_flag(...) / has_item(...) call between the first '(' and the
\* trailing ')'; IndexError when there is no '('
CallArgument(condition) ==
    LET at == IndexOf(condition, "(") IN
    IF at = 0 THEN [ok |-> FALSE, s |-> << >>]
    ELSE [ok |-> TRUE, s |-> StripChars(RStripChars(Drop(condition, at), {")"}), Quotes)]

RECURSIVE SplitStrip(_, _)
\* the parts that the repeated `split(sep, 1)` of evaluate_condition produces:
\* the stripped text before the first sep, then the parts of the stripped rest
SplitStrip(s, sep) ==
    IF FindSub(s, sep) = 0 THEN <<s>>
    ELSE <<Strip(SubSeq(s, 1, FindSub(s, sep) - 1))>> \o SplitStrip(Strip(Drop(s, FindSub(s, sep) + Len(sep) - 1)), sep)

RECURSIVE evaluate_condition(_, _)

\* what the object entry obj of the scene says about obj_name.state_name:
\* "true" / "false" (return), "next" (go on with the next entry) or "raise"
ObjectVerdict(st, obj, obj_name, state_name) ==
    LET spawned == IF obj.spawn_condition = << >> THEN CondResult(TRUE) ELSE evaluate_condition(st, obj.spawn_condition)
        matching == IF obj_name \in DOMAIN Objects
                    THEN {i \in 1..Len(Objects[obj_name].states) : Objects[obj_name].states[i].name = state_name}
                    ELSE {}
    IN IF obj.ref # obj_name THEN "next"
       ELSE IF spawned.raised THEN "raise"
       ELSE IF ~spawned.v THEN "next"
       ELSE IF state_name = s_present THEN "true"
       ELSE IF matching # {}
            THEN BoolStr(Objects[obj_name].states[CHOOSE i \in matching : \A j \in matching : i <= j].value)
       ELSE "next"

RECURSIVE check_objects(_, _, _, _)
\* the loop of _check_object_state over the scene's objects
check_objects(st, objects, obj_name, state_name) ==
    IF objects = << >> THEN CondResult(FALSE)
    ELSE LET verdict == ObjectVerdict(st, Head(objects), obj_name, state_name) IN
         IF verdict = "next" THEN check_objects(st, Tail(objects), obj_name, state_name)
         ELSE IF verdict = "raise" THEN CondRaise
         ELSE CondResult(verdict = "true")

\* _check_object_state(obj_name, state_name) against the current scene's objects
check_object_state(st, obj_name, state_name) ==
    IF st.scene = << >> \/ st.scene \notin DOMAIN SceneObjects THEN CondResult(FALSE)
    ELSE check_objects(st, SceneObjects[st.scene], obj_name, state_name)

\* a variant of the fallback that fails closed
unsupported_condition_closed == CondResult(FALSE)

\* the fallback for a condition of no supported form: logged, and True
unsupported_condition == CondResult(TRUE)

\* evaluate_condition for a condition without ' and ' and ' or ': the truth value,
\* or an exception.  Nothing in the evaluator catches the exceptions of float()
\* and of the call-syntax split.
evaluate_simple(st, condition) ==
    IF condition = << >> THEN CondResult(TRUE)
    ELSE IF FindSub(condition, <<"=", "=">>) # 0
    THEN LET at == FindSub(condition, <<"=", "=">>)
             left == Strip(SubSeq(condition, 1, at - 1))
             right0 == Strip(Drop(condition, at + 1))
             right == IF right0 # << >> /\ Head(right0) = "\"" /\ right0[Len(right0)] = "\""
                      THEN (IF Len(right0) >= 2 THEN SubSeq(right0, 2, Len(right0) - 1) ELSE << >>)
                      ELSE right0
         IN CondResult(ToStr(get_value(st, left)) = right)
    ELSE IF FindSub(condition, <<"h", "a", "s", "_", "f", "l", "a", "g">>) # 0
    THEN IF CallArgument(condition).ok THEN CondResult(CallArgument(condition).s \in st.flags) ELSE CondRaise
    ELSE IF FindSub(condition, <<"h", "a", "s", "_", "i", "t", "e", "m">>) # 0
    THEN IF ~CallArgument(condition).ok THEN CondRaise
         ELSE IF s_inventory \notin DOMAIN st.variables THEN CondResult(FALSE)
         ELSE LET inventory == st.variables[s_inventory] IN
              IF inventory.kind = "str"
              THEN CondResult(CallArgument(condition).s = << >> \/ FindSub(inventory.s, CallArgument(condition).s) # 0)
              ELSE CondRaise
    ELSE IF FindSub(condition, <<">", "=">>) # 0 THEN Compare(st, condition, <<">", "=">>)
    ELSE IF FindSub(condition, <<"<", "=">>) # 0 THEN Compare(st, condition, <<"<", "=">>)
    ELSE IF FindSub(condition, <<">">>) # 0 THEN Compare(st, condition, <<">">>)
    ELSE IF FindSub(condition, <<"<">>) # 0 THEN Compare(st, condition, <<"<">>)
    ELSE IF Head(condition) = "!" THEN CondResult(Strip(Tail(condition)) \notin st.flags)
    ELSE IF StartsWith(condition, <<"e", "x", "i", "s", "t", "s", ":">>) THEN CondResult(Strip(Drop(condition, 7)) \in DOMAIN st.variables)
    ELSE IF IndexOf(condition, ".") # 0
    THEN check_object_state(st, Strip(SubSeq(condition, 1, IndexOf(condition, ".") - 1)), Strip(Drop(condition, IndexOf(condition, "."))))
    ELSE unsupported_condition

RECURSIVE evaluate_or(_, _)
\* `first or <the other operands>`
OrElse(first, st, operands) ==
    IF Len(operands) = 1 \/ first.raised \/ first.v THEN first ELSE evaluate_or(st, Tail(operands))

\* `A or B or ...`: the first operand that is true or raises decides
evaluate_or(st, operands) == OrElse(evaluate_simple(st, Head(operands)), st, operands)

RECURSIVE evaluate_and(_, _)
\* `first and <the other operands>`
AndAlso(first, st, operands) ==
    IF Len(operands) = 1 \/ first.raised \/ ~first.v THEN first ELSE evaluate_and(st, Tail(operands))

\* `A and B and ...`: the first operand that is false or raises decides
evaluate_and(st, operands) == AndAlso(evaluate_or(st, SplitStrip(Head(operands), <<" ", "o", "r", " ">>)), st, operands)

\* evaluate_condition(condition).  The code splits at the first ' and ', else at
\* the first ' or ', and evaluates both sides recursively with short-circuit: a
\* conjunction, in order, of disjunctions, in order, of simple conditions.
evaluate_condition(st, condition) ==
    IF condition = << >> THEN CondResult(TRUE)
    ELSE evaluate_and(st, SplitStrip(condition, <<" ", "a", "n", "d", " ">>))

-----------------------------------------------------------------------------
(* StateMachineManager. *)

s_door == <<"d", "o", "o", "r">>
s_guard == <<"g", "u", "a", "r", "d">>
s_ghost == <<"g", "h", "o", "s", "t">>
s_closed == <<"c", "l", "o", "s", "e", "d">>
s_open == <<"o", "p", "e", "n">>
s_broken == <<"b", "r", "o", "k", "e", "n">>
s_idle == <<"i", "d", "l", "e">>
s_alert == <<"a", "l", "e", "r", "t">>
s_nowhere == <<"n", "o", "w", "h", "e", "r", "e">>
s_push == <<"p", "u", "s", "h">>
s_calm == <<"c", "a", "l", "m">>
s_game_time == <<"g", "a", "m", "e", "_", "t", "i", "m", "e">>
s_alarm == <<"a", "l", "a", "r", "m">>

Transition(condition, to, actions, event) == [condition |-> condition, to |-> to, actions |-> actions, event |-> event]

StateDef(transitions, actions) == [transitions |-> transitions, actions |-> actions]

\* states.get(current_state, {})
EmptyStateDef == StateDef(<< >>, << >>)

\* the states of the machine `door`
DoorStates ==
    [s \in {s_closed, s_open, s_broken} |->
        IF s = s_closed
        THEN StateDef(<<Transition(<<"t", "i", "m", "e", " ", ">", " ", "1", "0", "0">>, s_closed, <<<<"a", "d", "d", "_", "f", "l", "a", "g", ":", "c", "r", "e", "a", "k">>>>, << >>),
                        Transition(<<"h", "a", "s", "_", "f", "l", "a", "g", "(", "k", "e", "y", ")">>, s_open, <<<<"a", "d", "d", "_", "f", "l", "a", "g", ":", "o", "p", "e", "n", "e", "d">>>>, s_push),
                        Transition(<<"t", "i", "m", "e", " ", ">", " ", "1", "0", "0", " ", "&", "&", " ", "t", "i", "m", "e", " ", "<", " ", "2", "5", "0">>, s_broken, << >>, << >>)>>,
                      << >>)
        ELSE IF s = s_open
        THEN StateDef(<<Transition(<<"t", "i", "m", "e", " ", ">", " ", "1", "0", "0">>, s_closed, <<<<"r", "e", "m", "o", "v", "e", "_", "f", "l", "a", "g", ":", "o", "p", "e", "n", "e", "d">>>>, << >>)>>, <<<<"a", "d", "d", "_", "f", "l", "a", "g", ":", "d", "r", "a", "f", "t">>>>)
        ELSE EmptyStateDef]

\* the states of the machine `guard`
GuardStates ==
    [s \in {s_idle, s_alert} |->
        IF s = s_idle
        THEN StateDef(<<Transition(<<"a", "l", "a", "r", "m", " ", ">", " ", "0">>, s_alert, <<<<"b", "r", "o", "a", "d", "c", "a", "s", "t", ":", "a", "l", "a", "r", "m">>>>, << >>)>>, << >>)
        ELSE StateDef(<<Transition(<< >>, s_idle, << >>, s_calm)>>, << >>)]

\* parser.get_state_machine_data(): the script's machines in dict order
StateMachineData ==
    <<[name |-> s_door, initial_state |-> s_closed, states |-> DoorStates],
      [name |-> s_guard, initial_state |-> s_idle, states |-> GuardStates]>>

\* f"{sm_name}_state"
StateVar(sm_name) == sm_name \o <<"_", "s", "t", "a", "t", "e">>

\* sm_name in self.state_machines
MachineIndex(machines, sm_name) ==
    IF \E i \in 1..Len(machines) : machines[i].name = sm_name
    THEN CHOOSE i \in 1..Len(machines) : machines[i].name = sm_name
    ELSE 0

\* get_current_state(sm_name): the stored value, as a string; empty when unset or falsy
CurrentState(vs, sm_name) ==
    LET v == get_variable(vs, StateVar(sm_name), NoneVal) IN IF v.kind = "str" THEN v.s ELSE << >>

RECURSIVE Split(_, _)
\* s.split(sep)
Split(s, sep) ==
    IF FindSub(s, sep) = 0 THEN <<s>>
    ELSE <<SubSeq(s, 1, FindSub(s, sep) - 1)>> \o Split(Drop(s, FindSub(s, sep) + Len(sep) - 1), sep)

p_time_gt == <<"t", "i", "m", "e", " ", ">", " ">>
p_time_ge == <<"t", "i", "m", "e", " ", ">", "=", " ">>
p_time_lt == <<"t", "i", "m", "e", " ", "<", " ">>
p_time_le == <<"t", "i", "m", "e", " ", "<", "=", " ">>

\* one clause of a time condition: TRUE/FALSE, or a ValueError from float()
TimeClause(game_time, time_cond) ==
    LET threshold == IF StartsWith(time_cond, p_time_gt) \/ StartsWith(time_cond, p_time_lt)
                     THEN ParseNumber(Drop(time_cond, 7))
                     ELSE ParseNumber(Drop(time_cond, 8))
    IN IF StartsWith(time_cond, p_time_gt) THEN [ok |-> threshold.ok, v |-> game_time > threshold.n]
       ELSE IF StartsWith(time_cond, p_time_ge) THEN [ok |-> threshold.ok, v |-> game_time >= threshold.n]
       ELSE IF StartsWith(time_cond, p_time_lt) THEN [ok |-> threshold.ok, v |-> game_time < threshold.n]
       ELSE IF StartsWith(time_cond, p_time_le) THEN [ok |-> threshold.ok, v |-> game_time <= threshold.n]
       ELSE [ok |-> TRUE, v |-> TRUE]

RECURSIVE TimeClauses(_, _)
\* the loop over the clauses: False at the first clause that fails or cannot be parsed
TimeClauses(game_time, time_conditions) ==
    IF time_conditions = << >> THEN TRUE
    ELSE LET c == TimeClause(game_time, Strip(Head(time_conditions))) IN
         IF ~c.ok \/ ~c.v THEN FALSE ELSE TimeClauses(game_time, Tail(time_conditions))

\* _check_transition_condition(transition)
check_transition_condition(st, transition) ==
    LET condition == transition.condition IN
    IF condition = << >> THEN CondResult(FALSE)
    ELSE IF \/ StartsWith(condition, p_time_gt) \/ StartsWith(condition, p_time_ge)
            \/ StartsWith(condition, p_time_lt) \/ StartsWith(condition, p_time_le)
    THEN CondResult(TimeClauses(get_variable(st.variables, s_game_time, IntVal(0)).n, Split(condition, <<"&", "&">>)))
    ELSE evaluate_condition(st, condition)

\* _execute_state_transition(sm_name, from_state, to_state, transition)
execute_state_transition(st, sm_name, to_state, transition) ==
    ExecuteActions([st EXCEPT !.variables = set_variable(st.variables, StateVar(sm_name), StrVal(to_state))],
                   transition.actions)

\* what one pass over a transition list did with the transition at index i
Evaluated(sm_name, state, i, satisfied, applied) ==
    [machine |-> sm_name, state |-> state, i |-> i, satisfied |-> satisfied, applied |-> applied]

\* the trace entry e put in front of what the rest of a loop did
Then(e, rest) == [rest EXCEPT !.trace = <<e>> \o rest.trace]

RECURSIVE ScanTransitions(_, _, _, _, _)
\* the body of the loop of _update_state_machine for the transition at index i,
\* whose condition evaluated to c
TryTransition(c, st, sm_name, current_state, transitions, i) ==
    IF c.raised
    THEN [st |-> [st EXCEPT !.raised = TRUE], trace |-> <<Evaluated(sm_name, current_state, i, FALSE, FALSE)>>]
    ELSE IF c.v /\ transitions[i].to # << >> /\ transitions[i].to # current_state
    THEN [st |-> execute_state_transition(st, sm_name, transitions[i].to, transitions[i]),
          trace |-> <<Evaluated(sm_name, current_state, i, TRUE, TRUE)>>]
    ELSE Then(Evaluated(sm_name, current_state, i, c.v, FALSE),
              ScanTransitions(st, sm_name, current_state, transitions, i + 1))

\* the `for transition in transitions` loop of _update_state_machine: the store
\* after it and the transitions it evaluated
ScanTransitions(st, sm_name, current_state, transitions, i) ==
    IF i > Len(transitions) THEN [st |-> st, trace |-> << >>]
    ELSE TryTransition(check_transition_condition(st, transitions[i]), st, sm_name, current_state, transitions, i)

\* states.get(state, {}) with the defaults of transitions and actions
StateDefOf(sm_data, state) == IF state \in DOMAIN sm_data.states THEN sm_data.states[state] ELSE EmptyStateDef

\* a variant of _update_state_machine that goes on with the transitions of the
\* state it has just entered
update_state_machine_chaining(st, sm_data) ==
    LET current_state == CurrentState(st.variables, sm_data.name)
        first == ScanTransitions(st, sm_data.name, current_state, StateDefOf(sm_data, current_state).transitions, 1)
        entered == CurrentState(first.st.variables, sm_data.name)
        second == ScanTransitions(first.st, sm_data.name, entered, StateDefOf(sm_data, entered).transitions, 1)
    IN IF current_state = << >> THEN [st |-> st, trace |-> << >>]
       ELSE IF first.st.raised \/ entered = current_state THEN first
       ELSE [st |-> second.st, trace |-> first.trace \o second.trace]

\* the continuous actions of state_def after the loop, unless the loop raised
ThenStateActions(scan, state_def) ==
    IF scan.st.raised THEN scan ELSE [scan EXCEPT !.st = ExecuteActions(scan.st, state_def.actions)]

\* _update_state_machine(sm_name, sm_data, current_time): the transitions of the
\* current state in order, then the continuous actions of the state the call began in
update_state_machine(st, sm_data) ==
    IF CurrentState(st.variables, sm_data.name) = << >> THEN [st |-> st, trace |-> << >>]
    ELSE ThenStateActions(ScanTransitions(st, sm_data.name, CurrentState(st.variables, sm_data.name),
                                          StateDefOf(sm_data, CurrentState(st.variables, sm_data.name)).transitions, 1),
                          StateDefOf(sm_data, CurrentState(st.variables, sm_data.name)))

RECURSIVE update_state_machines(_, _)
\* the rest of the loop of update_state_machines after one machine's update: its
\* exception, if any, is logged and the next machine is updated
ThenOtherMachines(one, machines) ==
    LET rest == update_state_machines([one.st EXCEPT !.raised = FALSE], Tail(machines)) IN
    [rest EXCEPT !.trace = one.trace \o rest.trace]

\* update_state_machines(): every machine in dict order
update_state_machines(st, machines) ==
    IF machines = << >> THEN [st |-> st, trace |-> << >>]
    ELSE ThenOtherMachines(update_state_machine(st, Head(machines)), machines)

\* force_state(sm_name, state)
force_state(st, machines, sm_name, state) ==
    IF MachineIndex(machines, sm_name) # 0
    THEN [st |-> [st EXCEPT !.variables = set_variable(st.variables, StateVar(sm_name), StrVal(state))], result |-> TRUE]
    ELSE [st |-> st, result |-> FALSE]

RECURSIVE ScanEventTransitions(_, _, _, _, _, _)
\* the body of the loop of transition_state for a transition of the event, whose
\* condition evaluated to c
TryEventTransition(c, st, sm_name, current_state, transitions, event, i) ==
    IF c.raised
    THEN [st |-> [st EXCEPT !.raised = TRUE], trace |-> <<Evaluated(sm_name, current_state, i, FALSE, FALSE)>>, result |-> FALSE]
    ELSE IF c.v /\ transitions[i].to # << >> /\ transitions[i].to # current_state
    THEN [st |-> execute_state_transition(st, sm_name, transitions[i].to, transitions[i]),
          trace |-> <<Evaluated(sm_name, current_state, i, TRUE, TRUE)>>, result |-> TRUE]
    ELSE Then(Evaluated(sm_name, current_state, i, c.v, FALSE),
              ScanEventTransitions(st, sm_name, current_state, transitions, event, i + 1))

\* the loop of transition_state: the first transition for the event whose
\* condition holds and whose target is another state
ScanEventTransitions(st, sm_name, current_state, transitions, event, i) ==
    IF i > Len(transitions) THEN [st |-> st, trace |-> << >>, result |-> FALSE]
    ELSE IF transitions[i].event # event THEN ScanEventTransitions(st, sm_name, current_state, transitions, event, i + 1)
    ELSE TryEventTransition(check_transition_condition(st, transitions[i]), st, sm_name, current_state, transitions, event, i)

\* transition_state(machine_name, event)
transition_state(st, machines, machine_name, event) ==
    LET i == MachineIndex(machines, machine_name)
        current_state == CurrentState(st.variables, machine_name)
    IN IF i = 0 \/ current_state = << >> THEN [st |-> st, trace |-> << >>, result |-> FALSE]
       ELSE ScanEventTransitions(st, machine_name, current_state, StateDefOf(machines[i], current_state).transitions, event, 1)

RECURSIVE InitialiseStates(_, _)
\* the loop of load_state_machines that sets each machine's state variable
InitialiseStates(vs, machines) ==
    IF machines = << >> THEN vs
    ELSE InitialiseStates(IF Head(machines).initial_state # << >>
                          THEN set_variable(vs, StateVar(Head(machines).name), StrVal(Head(machines).initial_state))
                          ELSE vs,
                          Tail(machines))

GameTimes == {0, 100, 101, 250}

MachineNames == {s_door, s_guard, s_ghost}

StateNames == {s_closed, s_open, s_broken, s_idle, s_alert, s_nowhere}

EventNames == {s_push, s_calm}

\* the result of a call as the caller sees it
Outcome(st, result) == IF st.raised THEN "raise" ELSE BoolStr(result)

\* load_state_machines()
LoadStateMachines ==
    /\ state_machines' = StateMachineData
    /\ variables' = InitialiseStates(variables, StateMachineData)
    /\ sm_trace' = << >>
    /\ last_op' = Op("load_state_machines", << >>, "none")
    /\ UNCHANGED <<defVars, rndVars, persistVars, now, effVars, flags, current_scene, evVars, cmdVars, loopVars>>

\* update_state_machines()
UpdateStateMachines ==
    \E r \in {update_state_machines(Store(variables, flags, current_scene), state_machines)} :
    /\ variables' = r.st.variables
    /\ flags' = r.st.flags
    /\ sm_trace' = r.trace
    /\ last_op' = Op("update_state_machines", << >>, "none")
    /\ UNCHANGED <<defVars, rndVars, persistVars, now, effVars, current_scene, state_machines, evVars, cmdVars, loopVars>>

\* force_state(sm_name, state)
ForceState(sm_name, state) ==
    LET r == force_state(Store(variables, flags, current_scene), state_machines, sm_name, state) IN
    /\ variables' = r.st.variables
    /\ sm_trace' = << >>
    /\ last_op' = Op("force_state", [machine |-> sm_name, state |-> state], BoolStr(r.result))
    /\ UNCHANGED <<defVars, rndVars, persistVars, now, effVars, flags, current_scene, state_machines, evVars, cmdVars, loopVars>>

\* transition_state(machine_name, event)
TransitionState(machine_name, event) ==
    \E r \in {transition_state(Store(variables, flags, current_scene), state_machines, machine_name, event)} :
    /\ variables' = r.st.variables
    /\ flags' = r.st.flags
    /\ sm_trace' = r.trace
    /\ last_op' = Op("transition_state", [machine |-> machine_name, event |-> event], Outcome(r.st, r.result))
    /\ UNCHANGED <<defVars, rndVars, persistVars, now, effVars, current_scene, state_machines, evVars, cmdVars, loopVars>>

\* StateManager.set_variable('game_time', t) / set_variable('alarm', 1), between two calls
SetVariable(key, value) ==
    /\ get_variable(variables, key, NoneVal) # IntVal(value)
    /\ variables' = set_variable(variables, key, IntVal(value))
    /\ last_op' = Op("set_variable", key, "none")
    /\ UNCHANGED <<defVars, rndVars, persistVars, now, effVars, flags, current_scene, smVars, evVars, cmdVars, loopVars>>

\* StateManager.set_flag(flag), between two calls
SetFlag(flag) ==
    /\ flag \notin flags
    /\ flags' = set_flag(flags, flag)
    /\ last_op' = Op("set_flag", flag, "none")
    /\ UNCHANGED <<defVars, rndVars, persistVars, now, effVars, variables, current_scene, smVars, evVars, cmdVars, loopVars>>

InitSM == InitE

NextSM ==
    \/ LoadStateMachines
    \/ UpdateStateMachines
    \/ \E sm_name \in MachineNames, state \in StateNames : ForceState(sm_name, state)
    \/ \E machine_name \in MachineNames, event \in EventNames : TransitionState(machine_name, event)
    \/ \E t \in GameTimes : SetVariable(s_game_time, t)
    \/ SetVariable(s_alarm, 1)
    \/ SetFlag(s_key)

SpecSM == InitSM /\ [][NextSM]_vars

-----------------------------------------------------------------------------
(* Claims about the state machine manager. *)

\* the entries of the last call's trace that belong to machine sm_name
EntriesOf(sm_name) == {k \in 1..Len(sm_trace) : sm_trace[k].machine = sm_name}

\* C2: in update_state_machines the transitions of a machine's current state are
\* evaluated in declaration order and the first whose condition holds is the one
\* applied: no transition is applied after an earlier one of the same machine was
\* found satisfied in that call.
C2_FirstSatisfiedWins ==
    last_op.op = "update_state_machines" =>
        \A j, k \in 1..Len(sm_trace) :
            (sm_trace[j].machine = sm_trace[k].machine /\ j < k /\ sm_trace[k].applied) =>
                /\ sm_trace[j].i < sm_trace[k].i
                /\ ~sm_trace[j].satisfied

\* C3: the current-state variable of every loaded machine is a key of the
\* machine's `states`.
C3_CurrentStateDeclared ==
    \A i \in 1..Len(state_machines) :
        CurrentState(variables, state_machines[i].name) \in DOMAIN state_machines[i].states

\* C4: force_state(machine, state) returns false and leaves the variables as they
\* are whenever the machine is not loaded or state is not one of its states.
C4_ForceStateRejected ==
    [][(/\ last_op'.op = "force_state"
        /\ LET i == MachineIndex(state_machines, last_op'.arg.machine) IN
           i = 0 \/ last_op'.arg.state \notin DOMAIN state_machines[i].states)
       => (last_op'.result = "false" /\ variables' = variables)]_vars

\* C5: one update_state_machines call applies at most one transition per machine,
\* and every transition it evaluates for a machine belongs to the state the
\* machine was in when the call began: the transitions of the state it enters
\* wait for the next call.
C5_OneTransitionPerCall ==
    last_op.op = "update_state_machines" =>
        \A i \in 1..Len(state_machines) :
            LET entries == EntriesOf(state_machines[i].name) IN
            /\ Cardinality({k \in entries : sm_trace[k].applied}) <= 1
            /\ \A j, k \in entries : sm_trace[j].state = sm_trace[k].state
            /\ \A k \in entries :
                   sm_trace[k].applied =>
                       /\ sm_trace[k].state # CurrentState(variables, state_machines[i].name)
                       /\ \A j \in entries : j <= k

\* the door went from closed to open in the last call while the transition out of
\* open was already satisfied
C5_Witness ==
    /\ last_op.op = "update_state_machines"
    /\ \E k \in EntriesOf(s_door) : sm_trace[k].applied /\ sm_trace[k].state = s_closed
    /\ CurrentState(variables, s_door) = s_open
    /\ check_transition_condition(Store(variables, flags, current_scene), DoorStates[s_open].transitions[1]).v


\* the flags that the continuous actions of a state set
ContinuousFlags(state_def) ==
    {Drop(state_def.actions[k], Len(p_add_flag)) : k \in {j \in 1..Len(state_def.actions) : StartsWith(state_def.actions[j], p_add_flag)}}

\* C13: in each update_state_machines call, after the transitions were evaluated
\* and whether or not one fired, the continuous actions that ran for a machine are
\* those of the state that is then current, the newly entered state when a
\* transition fired: the flags they set are set.
C13_ContinuousActionsOfCurrentState ==
    last_op.op = "update_state_machines" =>
        \A i \in 1..Len(state_machines) :
            CurrentState(variables, state_machines[i].name) # << >> =>
                ContinuousFlags(StateDefOf(state_machines[i], CurrentState(variables, state_machines[i].name))) \subseteq flags
-----------------------------------------------------------------------------
(* EventManager: the scheduled pool. *)

s_wolf_event == <<"w", "o", "l", "f">>
s_window == <<"w", "i", "n", "d", "o", "w">>
s_bell == <<"b", "e", "l", "l">>
s_owl == <<"o", "w", "l">>
s_dawn == <<"d", "a", "w", "n">>
s_spawn_werewolf == <<"s", "p", "a", "w", "n", "_", "w", "e", "r", "e", "w", "o", "l", "f">>
s_werewolf_spawned == <<"w", "e", "r", "e", "w", "o", "l", "f", "_", "s", "p", "a", "w", "n", "e", "d">>
p_time_gt_100 == <<"t", "i", "m", "e", " ", ">", " ", "1", "0", "0">>

\* a processed scheduled event; chance is in hundredths
Event(id, trigger, chance, action, priority) ==
    [id |-> id, trigger |-> trigger, chance |-> chance, action |-> action, priority |-> priority, enabled |-> TRUE]

\* parser.get_events()['scheduled_events'] in declaration order, after _process_event_data
RawScheduledEvents ==
    <<Event(s_owl, <<"t", "i", "m", "e", " ", ">", "=", " ", "1">>, 100, <<"l", "o", "g", ":">>, "low"),
      Event(s_wolf_event, p_time_gt_100, 100, s_spawn_werewolf, "low"),
      Event(s_bell, <<"t", "i", "m", "e", " ", ">", "=", " ", "2", "5", "0">>, 100, <<"b", "r", "o", "a", "d", "c", "a", "s", "t", ":", "b", "e", "l", "l">>, "medium"),
      Event(s_dawn, <<"t", "i", "m", "e", " ", "<", " ", "2", "5", "0">>, 100, <<"t", "r", "a", "n", "s", "f", "o", "r", "m", ":", "d", "a", "w", "n">>, "high"),
      Event(s_window, <<"t", "i", "m", "e", " ", ">", " ", "1", "0", "0", " ", "&", "&", " ", "t", "i", "m", "e", " ", "<", " ", "2", "5", "0">>, 50, <<"t", "r", "a", "n", "s", "f", "o", "r", "m", ":", "d", "u", "s", "k">>, "high")>>

EventIds == {s_owl, s_wolf_event, s_bell, s_dawn, s_window, s_unknown}

\* a variant of _sort_events_by_priority that leaves the pool in declaration order
sort_events_unsorted(events) == events

\* _sort_events_by_priority: a stable sort, high before medium before low
sort_events_by_priority(events) ==
    SelectSeq(events, LAMBDA e : e.priority = "high")
        \o SelectSeq(events, LAMBDA e : e.priority \notin {"high", "low"})
        \o SelectSeq(events, LAMBDA e : e.priority = "low")

\* _check_time_trigger(trigger, game_time): the truth value, or the ValueError of
\* float() for a threshold that is not a number
check_time_trigger(trigger, game_time) ==
    IF StartsWith(trigger, p_time_gt)
    THEN IF ParseNumber(Drop(trigger, 7)).ok THEN CondResult(game_time > ParseNumber(Drop(trigger, 7)).n) ELSE CondRaise
    ELSE IF StartsWith(trigger, p_time_ge)
    THEN IF ParseNumber(Drop(trigger, 8)).ok THEN CondResult(game_time >= ParseNumber(Drop(trigger, 8)).n) ELSE CondRaise
    ELSE IF StartsWith(trigger, p_time_lt)
    THEN IF ParseNumber(Drop(trigger, 7)).ok THEN CondResult(game_time < ParseNumber(Drop(trigger, 7)).n) ELSE CondRaise
    ELSE IF StartsWith(trigger, p_time_le)
    THEN IF ParseNumber(Drop(trigger, 8)).ok THEN CondResult(game_time <= ParseNumber(Drop(trigger, 8)).n) ELSE CondRaise
    ELSE CondResult(FALSE)

\* _execute_event_action(action, event); a broadcast calls add_broadcast_message,
\* which the StateManager does not define, and nothing catches the AttributeError
execute_event_action(st, action) ==
    IF action = s_spawn_werewolf THEN [st EXCEPT !.variables = set_variable(st.variables, s_werewolf_spawned, BoolVal(TRUE))]
    ELSE IF StartsWith(action, p_broadcast) THEN [st EXCEPT !.raised = TRUE]
    ELSE st

RECURSIVE ScanScheduled(_, _, _, _, _)
\* the body of the loop of check_scheduled_events for the enabled event at index
\* i, whose trigger evaluated to c
TryEvent(c, st, events, game_time, draws, i) ==
    IF c.raised THEN [st |-> [st EXCEPT !.raised = TRUE], fired |-> << >>]
    ELSE IF c.v /\ draws[i] <= events[i].chance
    THEN IF execute_event_action(st, events[i].action).raised
         THEN [st |-> execute_event_action(st, events[i].action), fired |-> << >>]
         ELSE LET rest == ScanScheduled(execute_event_action(st, events[i].action), events, game_time, draws, i + 1) IN
              [rest EXCEPT !.fired = <<events[i].id>> \o rest.fired]
    ELSE ScanScheduled(st, events, game_time, draws, i + 1)

\* the loop of check_scheduled_events from index i on: the store after it and the
\* ids of the events whose action ran to its end, in order
ScanScheduled(st, events, game_time, draws, i) ==
    IF i > Len(events) THEN [st |-> st, fired |-> << >>]
    ELSE IF ~events[i].enabled THEN ScanScheduled(st, events, game_time, draws, i + 1)
    ELSE TryEvent(check_time_trigger(events[i].trigger, game_time), st, events, game_time, draws, i)

\* check_scheduled_events(); draws[i] is the random.random() drawn for event i, in hundredths
check_scheduled_events(st, events, draws) ==
    ScanScheduled(st, events, get_variable(st.variables, s_game_time, IntVal(0)).n, draws, 1)

\* _set_event_enabled(event_id, enabled) on one pool: the first event with the id
set_event_enabled(events, event_id, enabled) ==
    LET found == {i \in 1..Len(events) : events[i].id = event_id} IN
    IF found = {} THEN [events |-> events, result |-> FALSE]
    ELSE [events |-> [events EXCEPT ![CHOOSE i \in found : \A j \in found : i <= j].enabled = enabled], result |-> TRUE]

\* what kwargs.get gives for a keyword that was not passed
None == <<"None">>

Kwargs(action, variable, new_value, custom_type) ==
    [action |-> action, variable |-> variable, new_value |-> new_value, custom_type |-> custom_type]

s_take == <<"t", "a", "k", "e">>
s_drop == <<"d", "r", "o", "p">>
s_battle == <<"b", "a", "t", "t", "l", "e">>
s_looter == <<"l", "o", "o", "t", "e", "r">>
s_greeter == <<"g", "r", "e", "e", "t", "e", "r">>
s_hunter == <<"h", "u", "n", "t", "e", "r">>
s_herald == <<"h", "e", "r", "a", "l", "d">>
s_seen == <<"s", "e", "e", "n">>

\* a processed reactive event
ReactiveEvent(id, trigger, conditions, actions, priority) ==
    [id |-> id, trigger |-> trigger, conditions |-> conditions, actions |-> actions, priority |-> priority, enabled |-> TRUE]

\* parser.get_events()['reactive_events'] in declaration order, after _process_event_data
RawReactiveEvents ==
    <<ReactiveEvent(s_looter, <<"p", "l", "a", "y", "e", "r", ".", "a", "c", "t", "i", "o", "n", " ", "=", " ", "\"", "t", "a", "k", "e", "\"">>, <<<<"h", "a", "s", "_", "f", "l", "a", "g", "(", "p", "o", "w", "e", "r", ")">>, <<"g", "o", "l", "d", " ", ">", " ", "3">>>>,
                    <<<<"s", "e", "t", ":", "l", "o", "o", "t", " ", "=", " ", "1">>, <<"b", "r", "o", "a", "d", "c", "a", "s", "t", ":", "t", "a", "k", "e", "n">>, <<"a", "d", "d", "_", "f", "l", "a", "g", ":", "t", "a", "k", "e", "n">>>>, "medium"),
      ReactiveEvent(s_hunter, <<"p", "l", "a", "y", "e", "r", ".", "a", "c", "t", "i", "o", "n", " ", "=", " ", "t", "a", "k", "e">>, <<<<"!", "k", "e", "y">>>>, <<<<"s", "p", "a", "w", "n", "_", "w", "e", "r", "e", "w", "o", "l", "f", ":", "n", "o", "w">>>>, "low"),
      ReactiveEvent(s_greeter, <<"s", "c", "e", "n", "e", ".", "c", "h", "a", "n", "g", "e">>, << >>, <<<<"s", "e", "t", "_", "f", "l", "a", "g", ":", "s", "e", "e", "n">>>>, "medium"),
      ReactiveEvent(s_herald, <<"c", "u", "s", "t", "o", "m", ".", "b", "a", "t", "t", "l", "e">>, << >>, <<<<"l", "o", "g", ":", "b", "a", "t", "t", "l", "e">>>>, "high")>>

ReactiveIds == {s_looter, s_hunter, s_greeter, s_herald}

\* _matches_trigger(event_trigger, trigger_type, kwargs)
matches_trigger(st, event_trigger, trigger_type, kwargs) ==
    IF StartsWith(event_trigger, <<"p", "l", "a", "y", "e", "r", ".", "a", "c", "t", "i", "o", "n", " ", "=", " ">>)
    THEN trigger_type = "player_action" /\ kwargs.action = StripChars(Drop(event_trigger, 16), Quotes)
    ELSE IF StartsWith(event_trigger, <<"w", "o", "r", "l", "d", ".">>)
    THEN LET world_prop == Drop(event_trigger, 6)
             eq == IndexOf(world_prop, "=")
         IN /\ eq # 0
            /\ get_variable(st.variables, <<"w", "o", "r", "l", "d", "_">> \o Strip(SubSeq(world_prop, 1, eq - 1)), NoneVal)
                   = StrVal(StripChars(Strip(Drop(world_prop, eq)), Quotes))
    ELSE IF StartsWith(event_trigger, <<"s", "c", "e", "n", "e", ".", "c", "h", "a", "n", "g", "e">>)
    THEN trigger_type = "scene_change"
    ELSE IF StartsWith(event_trigger, <<"v", "a", "r", "i", "a", "b", "l", "e", ".">>)
    THEN LET var_trigger == Drop(event_trigger, 9)
             eq == IndexOf(var_trigger, "=")
         IN /\ eq # 0
            /\ trigger_type = "variable_change"
            /\ kwargs.variable = Strip(SubSeq(var_trigger, 1, eq - 1))
            /\ ToStr(kwargs.new_value) = StripChars(Strip(Drop(var_trigger, eq)), Quotes)
    ELSE IF StartsWith(event_trigger, <<"c", "u", "s", "t", "o", "m", ".">>)
    THEN trigger_type = "custom" /\ kwargs.custom_type = Drop(event_trigger, 7)
    ELSE FALSE

RECURSIVE check_conditions(_, _)
\* the rest of the loop of _check_conditions once the first condition evaluated to c
ThenConditions(c, st, conditions) ==
    IF c.raised THEN CondRaise
    ELSE IF ~c.v THEN CondResult(FALSE)
    ELSE check_conditions(st, Tail(conditions))

\* _check_conditions(conditions): all conditions hold, or the evaluator's exception
check_conditions(st, conditions) ==
    IF conditions = << >> THEN CondResult(TRUE)
    ELSE ThenConditions(evaluate_condition(st, Head(conditions)), st, conditions)

\* _register_default_handlers: the action types that have a handler
ActionHandlerTypes == {s_spawn_werewolf, <<"s", "p", "a", "w", "n", "_", "o", "b", "j", "e", "c", "t">>, <<"t", "r", "a", "n", "s", "f", "o", "r", "m">>, <<"b", "r", "o", "a", "d", "c", "a", "s", "t">>, <<"l", "o", "g">>}

\* action.split(':', 1)[0].strip(), the whole action when it has no colon
ActionType(action) == Strip(IF IndexOf(action, ":") # 0 THEN SubSeq(action, 1, IndexOf(action, ":") - 1) ELSE action)

\* action.split(':', 1)[1].strip(), empty when the action has no colon
ActionParams(action) == IF IndexOf(action, ":") # 0 THEN Strip(Drop(action, IndexOf(action, ":"))) ELSE << >>

\* _execute_single_action(action): the registered handler of the action type, the
\* ActionExecutor for a type without one.  _handle_broadcast calls
\* add_broadcast_message, which the StateManager does not define.
execute_single_event_action(st, action) ==
    IF ActionType(action) = s_spawn_werewolf
    THEN [st EXCEPT !.variables = set_variable(st.variables, s_werewolf_spawned, BoolVal(TRUE))]
    ELSE IF ActionType(action) = <<"b", "r", "o", "a", "d", "c", "a", "s", "t">> THEN [st EXCEPT !.raised = TRUE]
    ELSE IF ActionType(action) \in ActionHandlerTypes THEN st
    ELSE ExecuteAction(st, action)

RECURSIVE execute_event_actions(_, _)
\* _execute_actions(actions): every action in order, an exception is logged
execute_event_actions(st, actions) ==
    IF actions = << >> THEN st
    ELSE execute_event_actions([execute_single_event_action(st, Head(actions)) EXCEPT !.raised = FALSE], Tail(actions))

RECURSIVE ScanReactive(_, _, _, _, _)
\* the body of the loop of check_reactive_events for the enabled, matching event
\* at index i, whose conditions evaluated to c
TryReactive(c, st, events, trigger_type, kwargs, i) ==
    IF c.raised THEN [st |-> [st EXCEPT !.raised = TRUE], reacted |-> << >>]
    ELSE IF c.v
    THEN LET rest == ScanReactive(execute_event_actions(st, events[i].actions), events, trigger_type, kwargs, i + 1) IN
         [rest EXCEPT !.reacted = <<events[i].id>> \o rest.reacted]
    ELSE ScanReactive(st, events, trigger_type, kwargs, i + 1)

\* the loop of check_reactive_events from index i on: the store after it and the
\* ids of the events whose actions were executed, in order
ScanReactive(st, events, trigger_type, kwargs, i) ==
    IF i > Len(events) THEN [st |-> st, reacted |-> << >>]
    ELSE IF ~events[i].enabled \/ ~matches_trigger(st, events[i].trigger, trigger_type, kwargs)
    THEN ScanReactive(st, events, trigger_type, kwargs, i + 1)
    ELSE TryReactive(check_conditions(st, events[i].conditions), st, events, trigger_type, kwargs, i)

\* check_reactive_events(trigger_type, **kwargs)
check_reactive_events(st, events, trigger_type, kwargs) == ScanReactive(st, events, trigger_type, kwargs, 1)

\* the values of random.random() that matter, in hundredths
Draws == {0, 99}

Deltas == {50, 100, 149}

MaxGameTime == 250

\* EventManager.__init__: _load_events
InitEventsLoaded ==
    /\ scheduled_events = sort_events_by_priority(RawScheduledEvents)
    /\ reactive_events = sort_events_by_priority(RawReactiveEvents)
    /\ fired = << >>
    /\ reacted = << >>

\* check_scheduled_events()
CheckScheduledEvents ==
    \E draws \in [1..Len(scheduled_events) -> Draws] :
        \E r \in {check_scheduled_events(Store(variables, flags, current_scene), scheduled_events, draws)} :
            /\ variables' = r.st.variables
            /\ fired' = r.fired
            /\ last_op' = Op("check_scheduled_events", << >>, IF r.st.raised THEN "raise" ELSE "none")
            /\ UNCHANGED <<defVars, rndVars, persistVars, now, effVars, flags, current_scene, smVars, scheduled_events, reactive_events, reacted, cmdVars, loopVars>>

\* update_game_time(delta_time)
UpdateGameTime(delta_time) ==
    /\ get_variable(variables, s_game_time, IntVal(0)).n + delta_time <= MaxGameTime
    /\ \E draws \in [1..Len(scheduled_events) -> Draws] :
        \E r \in {check_scheduled_events(
                     Store(set_variable(variables, s_game_time, IntVal(get_variable(variables, s_game_time, IntVal(0)).n + delta_time)),
                           flags, current_scene),
                     scheduled_events, draws)} :
            /\ variables' = r.st.variables
            /\ fired' = r.fired
            /\ last_op' = Op("update_game_time", << >>, IF r.st.raised THEN "raise" ELSE "none")
            /\ UNCHANGED <<defVars, rndVars, persistVars, now, effVars, flags, current_scene, smVars, scheduled_events, reactive_events, reacted, cmdVars, loopVars>>

\* enable_event(event_id) / disable_event(event_id)
SetEventEnabled(event_id, enabled) ==
    \E r \in {set_event_enabled(scheduled_events, event_id, enabled)} :
    \E q \in {IF r.result THEN [events |-> reactive_events, result |-> TRUE]
              ELSE set_event_enabled(reactive_events, event_id, enabled)} :
        /\ scheduled_events' = r.events
        /\ reactive_events' = q.events
        /\ fired' = << >>
        /\ reacted' = << >>
        /\ last_op' = Op(IF enabled THEN "enable_event" ELSE "disable_event", event_id, BoolStr(q.result))
        /\ UNCHANGED <<defVars, rndVars, persistVars, now, effVars, storeVars, smVars, cmdVars, loopVars>>

InitEv == InitEffects /\ InitStore /\ InitMachines /\ InitEventsLoaded /\ InitCommands /\ InitRandom /\ InitPersist /\ InitDefs /\ InitLoop /\ last_op = NoOp

NextEv ==
    \/ CheckScheduledEvents
    \/ \E delta_time \in Deltas : UpdateGameTime(delta_time)
    \/ \E event_id \in EventIds, enabled \in BOOLEAN : SetEventEnabled(event_id, enabled)

SpecEvents == InitEv /\ [][NextEv]_vars

\* how often the event called id fired in the last check
FiredCount(id) == Cardinality({k \in 1..Len(fired) : fired[k] = id})

\* C6: an enabled scheduled event with trigger `time > 100` and chance 1.0 fires
\* exactly once on every check made while game_time > 100 and never on a check
\* made while game_time <= 100.
C6_FiresOncePerSatisfyingCheck ==
    last_op.op \in {"check_scheduled_events", "update_game_time"} =>
        \A i \in 1..Len(scheduled_events) :
            (scheduled_events[i].enabled /\ scheduled_events[i].trigger = p_time_gt_100 /\ scheduled_events[i].chance = 100) =>
                FiredCount(scheduled_events[i].id)
                    = IF get_variable(variables, s_game_time, IntVal(0)).n > 100 THEN 1 ELSE 0

\* priority_order of _sort_events_by_priority
Rank(priority) == IF priority = "high" THEN 0 ELSE IF priority = "low" THEN 2 ELSE 1

\* the event called id as the script declares it
Declared(id) == CHOOSE k \in 1..Len(RawScheduledEvents) : RawScheduledEvents[k].id = id

IsCompound(trigger) == Len(Split(trigger, <<"&", "&">>)) > 1

\* C16: a scheduled trigger made of several time clauses joined by && is
\* satisfied exactly when every clause holds for the current game_time (its event
\* fires only then, and fires then when its chance is 1.0), and evaluating it
\* never aborts the check: a check in which no enabled event has a failing action
\* ends without an exception.
C16_CompoundTriggerIsConjunction ==
    last_op.op \in {"check_scheduled_events", "update_game_time"} =>
        /\ (\A i \in 1..Len(scheduled_events) :
                scheduled_events[i].enabled => ~StartsWith(scheduled_events[i].action, p_broadcast))
              => last_op.result # "raise"
        /\ \A i \in 1..Len(scheduled_events) :
               (scheduled_events[i].enabled /\ IsCompound(scheduled_events[i].trigger)) =>
                   LET holds == TimeClauses(get_variable(variables, s_game_time, IntVal(0)).n,
                                            Split(scheduled_events[i].trigger, <<"&", "&">>))
                   IN /\ FiredCount(scheduled_events[i].id) > 0 => holds
                      /\ (holds /\ scheduled_events[i].chance = 100 /\ last_op.result # "raise")
                             => FiredCount(scheduled_events[i].id) = 1

\* the reactive checks the engine's triggers make: trigger_player_action,
\* trigger_scene_change, trigger_variable_change and a custom check
ReactiveChecks ==
    {[trigger_type |-> "player_action", kwargs |-> Kwargs(s_take, None, NoneVal, None)],
     [trigger_type |-> "player_action", kwargs |-> Kwargs(s_drop, None, NoneVal, None)],
     [trigger_type |-> "scene_change", kwargs |-> Kwargs(None, None, NoneVal, None)],
     [trigger_type |-> "variable_change", kwargs |-> Kwargs(None, s_gold, IntVal(5), None)],
     [trigger_type |-> "custom", kwargs |-> Kwargs(None, None, NoneVal, s_battle)]}

\* check_reactive_events(trigger_type, **kwargs)
CheckReactiveEvents(check) ==
    \E r \in {check_reactive_events(Store(variables, flags, current_scene), reactive_events, check.trigger_type, check.kwargs)} :
        /\ variables' = r.st.variables
        /\ flags' = r.st.flags
        /\ reacted' = r.reacted
        /\ last_op' = Op("check_reactive_events", check, IF r.st.raised THEN "raise" ELSE "none")
        /\ UNCHANGED <<defVars, rndVars, persistVars, now, effVars, current_scene, smVars, scheduled_events, fired, reactive_events, cmdVars, loopVars>>

NextRe ==
    \/ \E check \in ReactiveChecks : CheckReactiveEvents(check)
    \/ \E event_id \in ReactiveIds, enabled \in BOOLEAN : SetEventEnabled(event_id, enabled)
    \/ \E flag \in {s_power, s_key} : SetFlag(flag)
    \/ \E value \in {1, 5} : SetVariable(s_gold, value)

SpecReactive == InitEv /\ [][NextRe]_vars

\* the event of the reactive pool called id
ReactiveEventOf(id) == reactive_events[CHOOSE k \in 1..Len(reactive_events) : reactive_events[k].id = id]

\* C15: in a reactive check an event's action list executes if and only if the
\* event is enabled, its trigger matches the check's kind and keyword arguments,
\* and every one of its gating conditions evaluates true; with no conditions the
\* match is enough.
C15_ExecutesIffMatchAndConditions ==
    [][last_op'.op = "check_reactive_events" =>
        \A i \in 1..Len(reactive_events) :
            (\E k \in 1..Len(reacted') : reacted'[k] = reactive_events[i].id)
                <=> /\ reactive_events[i].enabled
                    /\ matches_trigger(Store(variables, flags, current_scene), reactive_events[i].trigger,
                                       last_op'.arg.trigger_type, last_op'.arg.kwargs)
                    /\ \A c \in 1..Len(reactive_events[i].conditions) :
                           evaluate_condition(Store(variables, flags, current_scene), reactive_events[i].conditions[c])
                               = CondResult(TRUE)]_vars

-----------------------------------------------------------------------------
(* ScriptCommandExecutor. *)

t_greet == <<"g", "r", "e", "e", "t">>
s_greeted == <<"g", "r", "e", "e", "t", "e", "d">>
s_vip == <<"v", "i", "p">>
m_hello == <<"h", "e", "l", "l", "o">>

\* the empty mapping {} as a command
EmptyCmd == [tag |-> << >>, arg |-> << >>, cond |-> << >>, then |-> << >>, else |-> << >>, dict |-> TRUE]

\* the tags of _register_builtin_handlers that the script of this model uses
HandlerTags == {t_set, t_set_flag, t_clear_flag, t_goto, t_if}

\* an entry of a script command's `actions`: a sub-command (a mapping) or a string
DictAction(command) == [dict |-> TRUE, command |-> command, s |-> << >>]

StrAction(s) == [dict |-> FALSE, command |-> EmptyCmd, s |-> s]

\* the commands the script defines itself: parser.get_command(tag)
ScriptCommands ==
    [tag \in {t_greet} |->
        [actions |-> <<DictAction(Cmd(t_set_flag, s_greeted)), StrAction(<<"m", "e", "s", "s", "a", "g", "e">>), StrAction(<<"w", "a", "v", "e">>)>>, message |-> m_hello]]

\* parser.get_command(command_type): the script's definition, if any
HasScriptCommand(command_type) == command_type \in DOMAIN ScriptCommands

\* what a call returns and leaves behind: the store, the messages, and the
\* commands it went through, in order
Ran(st, messages, log) == [st |-> st, messages |-> messages, log |-> log]

\* one command gone through: where it stands in the list (path), how it ended,
\* and for a conditional the value of its condition and the branch executed
Entry(path, tag, outcome, cond, branch) ==
    [path |-> path, tag |-> tag, outcome |-> outcome, cond |-> cond, branch |-> branch]

\* messages.extend(...): a after b
Join(a, b) == [st |-> b.st, messages |-> a.messages \o b.messages, log |-> a.log \o b.log]

RECURSIVE execute_commands(_, _, _, _)
RECURSIVE execute_command(_, _, _)

\* _execute_if(command) once the condition evaluated to c; an exception of the
\* evaluator leaves the handler before either branch
IfBranch(c, st, command, path) ==
    IF c.raised THEN Ran(st, << >>, <<Entry(path, t_if, "error", "raise", "none")>>)
    ELSE IF c.v
    THEN Join(Ran(st, << >>, <<Entry(path, t_if, "done", "true", "then")>>),
              execute_commands(st, command.then, path \o <<1>>, 1))
    ELSE Join(Ran(st, << >>, <<Entry(path, t_if, "done", "false", "else")>>),
              execute_commands(st, command.else, path \o <<2>>, 1))

\* _execute_if(command); command.get of a value that is no mapping raises
execute_if(st, command, path) ==
    IF ~command.dict THEN Ran(st, << >>, <<Entry(path, t_if, "error", "none", "none")>>)
    ELSE IfBranch(evaluate_condition(st, command.cond), st, command, path)

\* the registered handler of a built-in tag
execute_handler(st, command, path) ==
    IF command.tag = t_if THEN execute_if(st, command, path)
    ELSE Ran(IF command.tag = t_set THEN ExecuteSet(st, command.arg)
             ELSE IF command.tag = t_set_flag THEN [st EXCEPT !.flags = set_flag(st.flags, command.arg)]
             ELSE IF command.tag = t_clear_flag THEN [st EXCEPT !.flags = clear_flag(st.flags, command.arg)]
             ELSE [st EXCEPT !.scene = command.arg],
             << >>, <<Entry(path, command.tag, "done", "none", "none")>>)

RECURSIVE execute_script_actions(_, _, _, _)
\* the rest of the loop of _execute_script_command after the action at index k
ThenScriptActions(first, command_def, path, k) ==
    Join(first, execute_script_actions(first.st, command_def, path, k + 1))

\* the loop of _execute_script_command over command_def['actions']
execute_script_actions(st, command_def, path, k) ==
    IF k > Len(command_def.actions) THEN Ran(st, << >>, << >>)
    ELSE ThenScriptActions(
             IF command_def.actions[k].dict
             THEN execute_command(st, command_def.actions[k].command, path \o <<3, k>>)
             ELSE IF command_def.actions[k].s = <<"m", "e", "s", "s", "a", "g", "e">> THEN Ran(st, <<command_def.message>>, << >>)
             ELSE Ran(st, << >>, << >>),
             command_def, path, k)

\* execute_command(command): the script's own command first, then the registered
\* handler, else a warning; every exception is caught and logged
execute_command(st, command, path) ==
    IF command.tag = << >> THEN Ran(st, << >>, <<Entry(path, command.tag, "empty", "none", "none")>>)
    ELSE IF HasScriptCommand(command.tag)
    THEN Join(Ran(st, << >>, <<Entry(path, command.tag, "done", "none", "none")>>),
              execute_script_actions(st, ScriptCommands[command.tag], path, 1))
    ELSE IF command.tag \in HandlerTags THEN execute_handler(st, command, path)
    ELSE Ran(st, << >>, <<Entry(path, command.tag, "unknown", "none", "none")>>)

\* a variant of the loop of execute_commands that gives up after a command that failed
AfterCommandGivingUp(first, commands, path, i) ==
    IF first.log[1].outcome = "error" THEN first
    ELSE Join(first, execute_commands(first.st, commands, path, i + 1))

\* the rest of the loop of execute_commands after the command at index i
AfterCommand(first, commands, path, i) == Join(first, execute_commands(first.st, commands, path, i + 1))

\* execute_commands(commands) from index i on
execute_commands(st, commands, path, i) ==
    IF i > Len(commands) THEN Ran(st, << >>, << >>)
    ELSE AfterCommand(execute_command(st, commands[i], path \o <<i>>), commands, path, i)

\* the command lists of the script: scene commands and choice commands
\* the command {set: "gold += 2"}
AddTwoGold == Cmd(t_set, <<"g", "o", "l", "d", " ", "+", "=", " ", "2">>)

CommandLists ==
    <<  <<Cmd(t_set, <<"g", "o", "l", "d", " ", "=", " ", "5">>), Cmd(t_dance, <<"w", "i", "l", "d">>), Cmd(t_set_flag, s_key),
          IfCmd(<<"g", "o", "l", "d", " ", ">", " ", "3">>, <<Cmd(t_set_flag, s_vip)>>, <<Cmd(t_clear_flag, s_key)>>)>>,
        <<IfCmd(<<"g", "o", "l", "d", " ", ">", " ", "3">>, <<Cmd(t_clear_flag, s_vip), Cmd(t_set, <<"g", "o", "l", "d", " ", "=", " ", "2">>)>>, <<Cmd(t_set, <<"g", "o", "l", "d", " ", "=", " ", "9">>)>>),
          Cmd(t_goto, s_yard)>>,
        <<BareIfCmd(<<"h", "a", "s", "_", "f", "l", "a", "g", "(", "k", "e", "y", ")">>), EmptyCmd, Cmd(t_dance, <<"f", "a", "s", "t">>), Cmd(t_set, <<"g", "o", "l", "d", " ", "=", " ", "t", "i", "n">>), Cmd(t_greet, << >>), Cmd(t_goto, s_hall)>>,
        <<IfCmd(<<"h", "a", "s", "_", "f", "l", "a", "g", "(", "k", "e", "y", ")", " ", "a", "n", "d", " ", "l", "a", "m", "p", ".", "l", "i", "t">>, <<Cmd(t_clear_flag, s_key)>>, <<Cmd(t_dance, <<"s", "l", "o", "w">>), Cmd(t_set_flag, s_power)>>)>>,
        <<AddTwoGold>>
    >>

\* execute_commands(commands) for the n-th command list of the script
ExecuteCommands(n) ==
    \E r \in {execute_commands(Store(variables, flags, current_scene), CommandLists[n], << >>, 1)} :
        /\ variables' = r.st.variables
        /\ flags' = r.st.flags
        /\ current_scene' = r.st.scene
        /\ executed' = r.log
        /\ last_op' = Op("execute_commands", n, "none")
        /\ UNCHANGED <<defVars, rndVars, persistVars, now, effVars, smVars, evVars, loopVars>>

InitCmd == InitE

NextCmd ==
    \/ \E n \in 1..Len(CommandLists) : ExecuteCommands(n)
    \/ \E flag \in {s_power, s_vip} : SetFlag(flag)
    \/ SetVariable(s_gold, 1)

SpecCmd == InitCmd /\ [][NextCmd]_vars

-----------------------------------------------------------------------------
(* Claims about the command executor. *)

\* the commands of the list itself among the commands the last call went through
TopLevel == SelectSeq(executed, LAMBDA e : Len(e.path) = 1)

\* C8: every command of a list is executed exactly once and in list order; one
\* with an unknown tag or one that fails is skipped, and the commands after it
\* are still executed.
C8_EveryCommandOnceInOrder ==
    last_op.op = "execute_commands" =>
        /\ Len(TopLevel) = Len(CommandLists[last_op.arg])
        /\ \A i \in 1..Len(TopLevel) :
               /\ TopLevel[i].path = <<i>>
               /\ TopLevel[i].tag = CommandLists[last_op.arg][i].tag
               /\ (TopLevel[i].outcome = "unknown") =
                      (TopLevel[i].tag # << >> /\ TopLevel[i].tag \notin HandlerTags /\ ~HasScriptCommand(TopLevel[i].tag))
        /\ \A j, k \in 1..Len(executed) : executed[j].path = executed[k].path => j = k

\* a list in which a command after an unknown one and after a failed one was executed
C8_Witness ==
    /\ last_op.op = "execute_commands"
    /\ \E i, j, k \in 1..Len(TopLevel) :
           /\ i < k /\ j < k
           /\ TopLevel[i].outcome = "error"
           /\ TopLevel[j].outcome = "unknown"
           /\ TopLevel[k].outcome = "done"

\* the commands the last call went through inside the branch b (1 then, 2 else) of
\* the conditional at index k of its log
BranchEntries(k, b) ==
    {j \in 1..Len(executed) :
        /\ Len(executed[j].path) = Len(executed[k].path) + 2
        /\ SubSeq(executed[j].path, 1, Len(executed[k].path) + 1) = executed[k].path \o <<b>>}

\* C9: a conditional command executes exactly one of its two branches, all of
\* `then` when its condition is true and all of `else` when it is false: never
\* both and never neither.
C9_ExactlyOneBranch ==
    \A k \in 1..Len(executed) :
        (executed[k].tag = t_if /\ executed[k].cond # "none") =>
            /\ executed[k].branch \in {"then", "else"}
            /\ (executed[k].branch = "then") = (executed[k].cond = "true")
            /\ (executed[k].branch = "else") = (executed[k].cond = "false")
            /\ (executed[k].branch = "then") => BranchEntries(k, 2) = {}
            /\ (executed[k].branch = "else") => BranchEntries(k, 1) = {}

-----------------------------------------------------------------------------
(* StateManager: its effects, save_game, load_game and reset. *)

s_temp_buff == <<"t", "e", "m", "p", "_", "b", "u", "f", "f">>
s_perm_buff == <<"p", "e", "r", "m", "_", "b", "u", "f", "f">>

\* the effect data the callers hand to StateManager.apply_effect
StateEffectData == (s_temp_buff :> [duration |-> IntVal(2)]) @@ (s_perm_buff :> [duration |-> IntVal(0)])

\* the position of the effect in the dict, 0 when it is not there
StateEffectIndex(effs, effect_name) ==
    IF \E i \in 1..Len(effs) : effs[i].name = effect_name THEN CHOOSE i \in 1..Len(effs) : effs[i].name = effect_name ELSE 0

\* StateManager.apply_effect(effect_name, effect_data)
state_apply_effect(effs, effect_name, effect_data) ==
    IF StateEffectIndex(effs, effect_name) # 0
    THEN [effs EXCEPT ![StateEffectIndex(effs, effect_name)] = [name |-> effect_name, duration |-> effect_data.duration]]
    ELSE Append(effs, [name |-> effect_name, duration |-> effect_data.duration])

\* StateManager.remove_effect(effect_name)
state_remove_effect(effs, effect_name) ==
    IF StateEffectIndex(effs, effect_name) # 0 THEN RemoveAt(effs, StateEffectIndex(effs, effect_name)) ELSE effs

\* the first loop of StateManager.update_effects: an effect whose duration is
\* positive loses one turn
state_tick_every(effect) == [effect EXCEPT !.duration = IntVal(@.n - 1)]

state_tick(effect) == IF effect.duration.n > 0 THEN [effect EXCEPT !.duration = IntVal(@.n - 1)] ELSE effect

\* `duration > 0` raises TypeError for a duration that is no number; the first
\* such effect in dict order, 0 when there is none
FirstNotComparable(effs) ==
    IF \E i \in 1..Len(effs) : effs[i].duration.kind \in {"str", "none"}
    THEN CHOOSE i \in 1..Len(effs) :
             /\ effs[i].duration.kind \in {"str", "none"}
             /\ \A j \in 1..(i - 1) : effs[j].duration.kind \notin {"str", "none"}
    ELSE 0

\* StateManager.update_effects() raises
state_update_raises(effs) == FirstNotComparable(effs) # 0

\* the effect dicts after the first loop of StateManager.update_effects: the loop
\* stops at the first duration that cannot be compared
state_ticked(effs) ==
    [i \in 1..Len(effs) |->
        IF FirstNotComparable(effs) = 0 \/ i < FirstNotComparable(effs) THEN state_tick(effs[i]) ELSE effs[i]]

\* StateManager.update_effects(): the effects that reached 0 in this call are
\* removed; nothing is removed when the first loop raised
state_update_effects(effs) ==
    IF state_update_raises(effs) THEN state_ticked(effs)
    ELSE SelectSeq(state_ticked(effs),
                   LAMBDA e : ~(e.duration.n <= 0 /\ \E i \in 1..Len(effs) : effs[i].name = e.name /\ effs[i].duration.n > 0))

\* the names of the effects in the dict
StateEffectNames(effs) == {effs[i].name : i \in 1..Len(effs)}

\* the parser's effect definitions after StateManager.update_effects(): the
\* decrement `effect['duration'] -= 1` writes into the dict the entry holds, which
\* is the definition itself for an entry stored by the apply_effect command
defs_after_update(defs, effs, shared) ==
    [e \in DOMAIN defs |->
        IF e \in shared /\ StateEffectIndex(effs, e) # 0 THEN state_ticked(effs)[StateEffectIndex(effs, e)].duration ELSE defs[e]]

\* str(n) of an integer
SignedToStr(n) == IF n < 0 THEN <<"-">> \o IntToStr(-n) ELSE IntToStr(n)

\* json.dump of a value: the JSON token written
json_dump(v) ==
    IF v.kind = "int" THEN [t |-> "number", text |-> SignedToStr(v.n)]
    ELSE IF v.kind = "float" THEN [t |-> "number", text |-> v.s]
    ELSE IF v.kind = "bool" THEN [t |-> IF v.n = 1 THEN "true" ELSE "false", text |-> << >>]
    ELSE IF v.kind = "none" THEN [t |-> "null", text |-> << >>]
    ELSE [t |-> "string", text |-> v.s]

\* json.load that reads every token as a string
json_load_as_text(j) == StrVal(j.text)

\* json.load of a token: the value read
json_load(j) ==
    IF j.t = "number"
    THEN (IF IndexOf(j.text, ".") # 0 THEN FloatVal(j.text)
          ELSE IF Head(j.text) = "-" THEN IntVal(0 - DigitsValue(Tail(j.text)))
          ELSE IntVal(DigitsValue(j.text)))
    ELSE IF j.t = "true" THEN BoolVal(TRUE)
    ELSE IF j.t = "false" THEN BoolVal(FALSE)
    ELSE IF j.t = "null" THEN NoneVal
    ELSE StrVal(j.text)

\* the orders in which list(self.flags) can enumerate the set
FlagLists(fs) == {f \in [1..Cardinality(fs) -> fs] : \A i, j \in 1..Cardinality(fs) : i # j => f[i] # f[j]}

\* save_game that leaves the file as it is
save_game_skipped(file, st, effs, flag_list) == file

\* save_game(): the content of the save file afterwards
save_game(file, st, effs, flag_list) ==
    [exists |-> TRUE,
     variables |-> [k \in DOMAIN st.variables |-> json_dump(st.variables[k])],
     flags |-> flag_list,
     current_scene |-> st.scene,
     active_effects |-> [i \in 1..Len(effs) |-> [name |-> effs[i].name, duration |-> json_dump(effs[i].duration)]]]

\* load_game(): the store read from the file, or False without a file
load_game(file, st, effs) ==
    IF ~file.exists THEN [result |-> FALSE, st |-> st, effs |-> effs]
    ELSE [result |-> TRUE,
          st |-> Store([k \in DOMAIN file.variables |-> json_load(file.variables[k])],
                       {file.flags[i] : i \in 1..Len(file.flags)},
                       file.current_scene),
          effs |-> [i \in 1..Len(file.active_effects) |->
                       [name |-> file.active_effects[i].name, duration |-> json_load(file.active_effects[i].duration)]]]

-----------------------------------------------------------------------------
(* SceneExecutor, ChoiceProcessor and the game loop. *)

s_cellar == <<"c", "e", "l", "l", "a", "r">>
s_gate == <<"g", "a", "t", "e">>

Choice(condition, commands, next) == [condition |-> condition, commands |-> commands, next |-> next]

\* parser.get_scene(scene_id) for the scenes of the script
Scenes ==
    [sc \in {s_hall, s_yard, s_gate} |->
        IF sc = s_gate
        THEN [commands |-> <<Cmd(t_goto, s_yard)>>,
              choices |-> <<Choice(<< >>, <<Cmd(t_set_flag, s_key)>>, s_hall)>>]
        ELSE IF sc = s_hall
        THEN [commands |-> <<Cmd(t_set_flag, s_power)>>,
              choices |-> <<Choice(<< >>, <<Cmd(t_set, <<"g", "o", "l", "d", " ", "=", " ", "5">>), Cmd(t_greet, << >>)>>, s_yard),
                            Choice(<<"h", "a", "s", "_", "f", "l", "a", "g", "(", "k", "e", "y", ")">>, <<Cmd(t_greet, << >>)>>, << >>),
                            Choice(<<"!", "k", "e", "y">>, <<Cmd(t_set_flag, s_key)>>, << >>),
                            Choice(<<"l", "a", "m", "p", ".", "l", "i", "t">>, << >>, s_cellar)>>]
        ELSE [commands |-> <<Cmd(t_clear_flag, s_key), Cmd(t_dance, <<"w", "i", "l", "d">>)>>,
              choices |-> <<Choice(<<"g", "o", "l", "d", " ", ">", " ", "3">>, <<Cmd(t_set, <<"g", "o", "l", "d", " ", "=", " ", "o", "l", "d">>)>>, s_hall),
                            Choice(<<"g", "o", "l", "d", " ", ">", " ", "3">>, << >>, s_hall)>>]]

\* parser.get_start_scene()
StartScene == s_hall

RECURSIVE FilterChoices(_, _)
\* the rest of the filtering loop once the first choice's condition evaluated to c
KeepIf(c, st, choices) ==
    IF c.raised THEN [choices |-> << >>, raised |-> TRUE]
    ELSE LET rest == FilterChoices(st, Tail(choices)) IN
         IF c.v THEN [rest EXCEPT !.choices = <<Head(choices)>> \o rest.choices] ELSE rest

\* the choices whose condition holds (_process_scene, get_available_choices), or
\* the exception of the evaluator
FilterChoices(st, choices) ==
    IF choices = << >> THEN [choices |-> << >>, raised |-> FALSE]
    ELSE KeepIf(evaluate_condition(st, Head(choices).condition), st, choices)

\* the end of execute_scene: the scene's commands have run, its choices are filtered
ThenProcessScene(ran, choices) ==
    [st |-> [ran.st EXCEPT !.raised = FilterChoices(ran.st, choices).raised], log |-> ran.log]

\* SceneExecutor.execute_scene(scene_id): ValueError for a scene the script does not have
execute_scene(st, scene_id) ==
    IF scene_id \notin DOMAIN Scenes THEN [st |-> [st EXCEPT !.raised = TRUE], log |-> << >>]
    ELSE ThenProcessScene(execute_commands([st EXCEPT !.scene = scene_id], Scenes[scene_id].commands, << >>, 1),
                          Scenes[scene_id].choices)

\* process_choice for the available choices: (next_scene, messages)
Choose(available, st, choice_index) ==
    IF available.raised THEN [st |-> [st EXCEPT !.raised = TRUE], next_scene |-> << >>, messages |-> << >>, log |-> << >>]
    ELSE IF 0 <= choice_index /\ choice_index < Len(available.choices)
    THEN [next_scene |-> available.choices[choice_index + 1].next]
            @@ execute_commands(st, available.choices[choice_index + 1].commands, << >>, 1)
    ELSE [st |-> st, next_scene |-> << >>, messages |-> << >>, log |-> << >>]

\* ChoiceProcessor.process_choice(choice_index); parser.get_scene of a scene the
\* script does not have returns {}
process_choice(st, choice_index) ==
    Choose(FilterChoices(st, IF st.scene \in DOMAIN Scenes THEN Scenes[st.scene].choices ELSE << >>), st, choice_index)

max_invalid_choices == 5

\* the iterations in a row that ended in the loop's `except Exception`, counted up to MaxErrors
Failed(errors) == IF errors < MaxErrors THEN errors + 1 ELSE errors

\* GameRunner.run for a script that starts in start_scene: _run_game_loop starts
\* with that scene
RunGameFrom(start_scene) ==
    /\ loop.pc = "idle"
    /\ loop' = [pc |-> "top", current_scene_id |-> start_scene, rerender |-> TRUE, invalid_choice_count |-> 0,
                scene_data |-> << >>, errors |-> 0]
    /\ turn_log' = << >>
    /\ last_op' = Op("run", << >>, "none")
    /\ UNCHANGED <<defVars, rndVars, persistVars, now, effVars, storeVars, smVars, evVars, cmdVars>>

\* GameRunner.run: _run_game_loop starts with the script's start scene
RunGame == RunGameFrom(StartScene)

\* one iteration of _run_game_loop up to the wait for the player: the effects
\* update and, when rerender is set, execute_scene and render_scene.  An
\* exception is caught and logged, and the loop starts its next iteration.
LoopBegin ==
    /\ loop.pc = "top"
    /\ \E m \in {update_effects(active_effects, Store(variables, flags, current_scene), effect_runs, now)} :
       \E r \in {IF m.raised \/ ~loop.rerender THEN [st |-> [m.st EXCEPT !.raised = m.raised], log |-> executed]
                 ELSE execute_scene(m.st, loop.current_scene_id)} :
          /\ active_effects' = m.effs
          /\ effect_runs' = m.runs
          /\ effect_hist' = [e \in EffectNames |-> IF effect_hist[e].d >= 0 /\ effect_hist[e].updates < MaxUpdates
                                                   THEN [effect_hist[e] EXCEPT !.updates = @ + 1] ELSE effect_hist[e]]
          /\ variables' = r.st.variables
          /\ flags' = r.st.flags
          /\ current_scene' = r.st.scene
          /\ executed' = r.log
          /\ turn_log' = <<"update_effects">>
                            \o (IF ~m.raised /\ loop.rerender THEN <<"execute_scene">> ELSE << >>)
                            \o (IF ~r.st.raised /\ loop.rerender THEN <<"render_scene">> ELSE << >>)
          /\ loop' = IF r.st.raised THEN [loop EXCEPT !.errors = Failed(@)]
                     ELSE IF loop.rerender
                     THEN [loop EXCEPT !.pc = "wait", !.scene_data = FilterChoices(r.st, Scenes[loop.current_scene_id].choices).choices]
                     ELSE [loop EXCEPT !.pc = "wait", !.rerender = TRUE]
          /\ last_op' = Op("loop_begin", << >>, IF r.st.raised THEN "raise" ELSE "none")
    /\ UNCHANGED <<defVars, rndVars, persistVars, now, smVars, evVars>>

\* the rest of the iteration: get_player_choice returns choice_index (-1: no
\* choice made), then process_choice and the bookkeeping of the loop
LoopChoice(choice_index) ==
    /\ loop.pc = "wait"
    /\ IF choice_index = -1
       THEN /\ loop' = [loop EXCEPT !.pc = "top", !.rerender = FALSE, !.errors = 0]
            /\ turn_log' = turn_log \o <<"get_player_choice">>
            /\ last_op' = Op("loop_choice", choice_index, "none")
            /\ UNCHANGED <<storeVars, cmdVars>>
       ELSE \E r \in {process_choice(Store(variables, flags, current_scene), choice_index)} :
            /\ variables' = r.st.variables
            /\ flags' = r.st.flags
            /\ current_scene' = r.st.scene
            /\ executed' = r.log
            /\ turn_log' = turn_log \o <<"get_player_choice", "process_choice">>
            /\ loop' = IF r.st.raised THEN [loop EXCEPT !.pc = "top", !.errors = Failed(@)]
                       ELSE IF r.next_scene # << >>
                       THEN [loop EXCEPT !.pc = "top", !.current_scene_id = r.next_scene, !.invalid_choice_count = 0, !.errors = 0]
                       ELSE IF r.messages = << >>
                       THEN [loop EXCEPT !.pc = IF loop.invalid_choice_count + 1 >= max_invalid_choices THEN "done" ELSE "top",
                                         !.invalid_choice_count = @ + 1, !.errors = 0]
                       ELSE [loop EXCEPT !.pc = "top", !.errors = 0]
            /\ last_op' = Op("loop_choice", choice_index, IF r.st.raised THEN "raise" ELSE "none")
    /\ UNCHANGED <<defVars, rndVars, persistVars, now, effVars, smVars, evVars>>

\* the choices process_choice offers in the current scene
AvailableChoices(st) == FilterChoices(st, IF st.scene \in DOMAIN Scenes THEN Scenes[st.scene].choices ELSE << >>)

\* KeyboardInterrupt while the loop waits in get_player_choice: the handler of the
\* loop saves the game and the loop ends
InterruptAtPrompt ==
    /\ loop.pc = "wait"
    /\ \E flag_list \in FlagLists(flags) :
           save_file' = save_game(save_file, Store(variables, flags, current_scene), state_effects, flag_list)
    /\ loop' = [loop EXCEPT !.pc = "done"]
    /\ turn_log' = turn_log \o <<"get_player_choice">>
    /\ last_op' = Op("interrupt", [choice |-> -1, commands |-> 0], "none")
    /\ UNCHANGED <<defVars, rndVars, state_effects, now, effVars, storeVars, smVars, evVars, cmdVars>>

\* KeyboardInterrupt inside process_choice, after `done` commands of the chosen
\* command list have run: the handler of the loop saves the game and the loop ends
InterruptInCommands(choice_index, done) ==
    /\ loop.pc = "wait"
    /\ \E available \in {AvailableChoices(Store(variables, flags, current_scene))} :
           /\ ~available.raised
           /\ 0 <= choice_index /\ choice_index < Len(available.choices)
           /\ done < Len(available.choices[choice_index + 1].commands)
           /\ \E ran \in {execute_commands(Store(variables, flags, current_scene),
                                           SubSeq(available.choices[choice_index + 1].commands, 1, done), << >>, 1)} :
              \E flag_list \in FlagLists(ran.st.flags) :
                  /\ variables' = ran.st.variables
                  /\ flags' = ran.st.flags
                  /\ current_scene' = ran.st.scene
                  /\ executed' = ran.log
                  /\ save_file' = save_game(save_file, ran.st, state_effects, flag_list)
    /\ loop' = [loop EXCEPT !.pc = "done"]
    /\ turn_log' = turn_log \o <<"get_player_choice", "process_choice">>
    /\ last_op' = Op("interrupt", [choice |-> choice_index, commands |-> done], "none")
    /\ UNCHANGED <<defVars, rndVars, state_effects, now, effVars, smVars, evVars>>

ChoiceIndexes == -1..4

InitLoopSpec == InitE

\* the host applies an effect through the effects manager before it runs the game
ApplyEffectBeforeRun(effect_name, target) == loop.pc = "idle" /\ ApplyEffect(effect_name, target)

NextLoop ==
    \/ RunGame
    \/ \E effect_name \in TimedEffectNames, target \in {<< >>, s_wolf} : ApplyEffectBeforeRun(effect_name, target)
    \/ LoopBegin
    \/ \E choice_index \in ChoiceIndexes : LoopChoice(choice_index)
    \/ InterruptAtPrompt
    \/ \E choice_index \in ChoiceIndexes, done \in 0..1 : InterruptInCommands(choice_index, done)

SpecLoop == InitLoopSpec /\ [][NextLoop]_vars

\* the steps that the turn loop is to run in every turn
TurnSteps ==
    <<"update_effects", "check_scheduled_events", "render_scene", "get_player_choice", "process_choice", "update_state_machines">>

\* C7: every turn of the game loop runs, each exactly once and in this order, the
\* effects update, the scheduled-event check, the scene render, the wait for the
\* player's choice, the dispatch of the chosen commands and the state-machine
\* update.
C7_TurnStepsInOrder ==
    (last_op.op = "loop_choice" /\ last_op.arg # -1 /\ last_op.result = "none") =>
        SelectSeq(turn_log, LAMBDA s : \E k \in 1..Len(TurnSteps) : TurnSteps[k] = s) = TurnSteps


Count(seq, x) == Cardinality({k \in 1..Len(seq) : seq[k] = x})


\* C25: if every iteration of the turn loop raises a runtime error, the loop
\* ends after a small bounded number of consecutive errors instead of iterating
\* forever: it never goes through more than five failed iterations in a row.
C25_ConsecutiveErrorsBounded == loop.errors <= 5


\* C26: when the turn loop is interrupted, a save of the state store is attempted
\* before the loop ends, and every state change made by the commands that ran
\* before the interrupt is kept: the store is the one those commands left, and it
\* is the store written to the save file.
C26_InterruptSavesAndKeeps ==
    [][last_op'.op = "interrupt" =>
          /\ loop'.pc = "done"
          /\ save_file'.exists
          /\ \E r \in {load_game(save_file', Store(<< >>, {}, << >>), << >>)} :
                 r.st.variables = variables' /\ r.st.flags = flags' /\ r.st.scene = current_scene'
          /\ IF last_op'.arg.choice = -1 THEN UNCHANGED storeVars
             ELSE \E st \in {Store(variables, flags, current_scene)} :
                  \E ran \in {execute_commands(st, SubSeq(AvailableChoices(st).choices[last_op'.arg.choice + 1].commands,
                                                          1, last_op'.arg.commands), << >>, 1)} :
                      variables' = ran.st.variables /\ flags' = ran.st.flags]_vars

\* C26 witness: the loop was interrupted after the first of the two commands of a
\* choice, and the variable that command set is in the store and in the save file
C26_Witness ==
    /\ last_op = Op("interrupt", [choice |-> 0, commands |-> 1], "none")
    /\ loop.pc = "done"
    /\ s_gold \in DOMAIN variables /\ variables[s_gold] = IntVal(5)
    /\ save_file.exists /\ s_gold \in DOMAIN save_file.variables

\* C12: the effects update runs exactly once per logical turn, i.e. once for each
\* player choice that is processed; re-prompting the player without processing a
\* choice runs no additional update and decrements no effect's duration.
C12_OneUpdatePerProcessedChoice ==
    [][/\ (last_op'.op = "loop_choice" /\ last_op'.arg # -1) => Count(turn_log', "update_effects") = 1
       /\ (last_op.op = "loop_choice" /\ last_op.arg = -1 /\ last_op'.op = "loop_begin") =>
              /\ Count(turn_log', "update_effects") = 0
              /\ active_effects' = active_effects]_vars


\* C17: an event action whose type has no registered handler falls back to the
\* command executor: executing the action `T:P` for an unregistered T hands the
\* command {T: P} to the command executor, so the store afterwards is the one
\* that command leaves.
C17_FallbackToCommandExecutor ==
    [][(/\ last_op'.op = "check_reactive_events"
        /\ Len(reacted') = 1
        /\ Len(ReactiveEventOf(reacted'[1]).actions) = 1
        /\ ActionType(ReactiveEventOf(reacted'[1]).actions[1]) \notin ActionHandlerTypes)
       => \E r \in {execute_command(Store(variables, flags, current_scene),
                                    Cmd(ActionType(ReactiveEventOf(reacted'[1]).actions[1]),
                                        ActionParams(ReactiveEventOf(reacted'[1]).actions[1])), << >>).st} :
              variables' = r.variables /\ flags' = r.flags]_vars


\* C18: the assignment `gold += 2`, executed while gold holds a number, stores
\* gold + 2 under gold and touches no other key; executed while gold holds a
\* value that is not a number, it leaves the variable store unchanged.
C18_AddAssign ==
    [][(last_op'.op = "execute_commands" /\ CommandLists[last_op'.arg] = <<AddTwoGold>> /\ s_gold \in DOMAIN variables) =>
          IF variables[s_gold].kind = "int"
          THEN variables' = set_variable(variables, s_gold, IntVal(variables[s_gold].n + 2))
          ELSE variables' = variables]_vars


-----------------------------------------------------------------------------
(* The condition evaluator applied to the conditions of a script. *)

c_health_is_100 == <<"h", "e", "a", "l", "t", "h", " ", "=", "=", " ", "1", "0", "0">>

\* the conditions evaluated
Conditions ==
    {<< >>, c_health_is_100, <<"i", "s", "_", "n", "i", "g", "h", "t">>, <<"l", "e", "v", "e", "l", " ", "=", " ", "3">>, <<"x", " ", "!", "=", " ", "5">>, <<"h", "a", "s", "_", "f", "l", "a", "g", "(", "k", "e", "y", ")">>, <<"!", "k", "e", "y">>,
     <<"e", "x", "i", "s", "t", "s", ":", "h", "e", "a", "l", "t", "h">>, <<"h", "e", "a", "l", "t", "h", " ", "=", "=", " ", "1", "0", "0", " ", "a", "n", "d", " ", "h", "a", "s", "_", "f", "l", "a", "g", "(", "k", "e", "y", ")">>, <<"h", "e", "a", "l", "t", "h", " ", "=", "=", " ", "7", " ", "o", "r", " ", "i", "s", "_", "n", "i", "g", "h", "t">>,
     <<"g", "o", "l", "d", " ", ">", " ", "3">>, <<"h", "e", "a", "l", "t", "h", " ", ">", "=", " ", "1", "0", "0">>, <<"g", "o", "l", "d", " ", "<", " ", "9", " ", "a", "n", "d", " ", "h", "a", "s", "_", "f", "l", "a", "g", "(", "k", "e", "y", ")">>}

\* the right-hand sides that `set` commands give health
HealthExpressions == {<<"h", "e", "a", "l", "t", "h", " ", "=", " ", "1", "0", "0">>, <<"h", "e", "a", "l", "t", "h", " ", "=", " ", "9", "9">>, <<"h", "e", "a", "l", "t", "h", " ", "=", " ", "\"", "1", "0", "0", "\"">>, <<"h", "e", "a", "l", "t", "h", " ", "=", " ", "1", "0", "0", ".", "0">>, <<"h", "e", "a", "l", "t", "h", " ", "=", " ", "t", "r", "u", "e">>}

\* the right-hand sides that `set` commands give gold
GoldExpressions == {<<"g", "o", "l", "d", " ", "=", " ", "5">>, <<"g", "o", "l", "d", " ", "=", " ", "r", "i", "c", "h">>}

\* ConditionEvaluator.evaluate_condition(condition)
EvaluateCondition(condition) ==
    \E r \in {evaluate_condition(Store(variables, flags, current_scene), condition)} :
        /\ last_op' = Op("evaluate_condition", condition, IF r.raised THEN "raise" ELSE BoolStr(r.v))
        /\ UNCHANGED <<defVars, rndVars, persistVars, now, effVars, storeVars, smVars, evVars, cmdVars, loopVars>>

\* execute_commands([{set: expression}])
ExecuteSetCommand(expression) ==
    \E r \in {execute_commands(Store(variables, flags, current_scene), <<Cmd(t_set, expression)>>, << >>, 1)} :
        /\ variables' = r.st.variables
        /\ flags' = r.st.flags
        /\ current_scene' = r.st.scene
        /\ executed' = r.log
        /\ last_op' = Op("execute_commands", expression, "none")
        /\ UNCHANGED <<defVars, rndVars, persistVars, now, effVars, smVars, evVars, loopVars>>

NextCond ==
    \/ \E condition \in Conditions : EvaluateCondition(condition)
    \/ \E expression \in HealthExpressions \cup GoldExpressions : ExecuteSetCommand(expression)
    \/ \E flag \in {s_key, s_power} : SetFlag(flag)

SpecCond == InitE /\ [][NextCond]_vars

\* C19: evaluate_condition("health == 100") is true if and only if the variable
\* store holds the number 100 under health; it is false when health is unset or
\* holds any other number or any other value.
C19_HealthIs100 ==
    (last_op.op = "evaluate_condition" /\ last_op.arg = c_health_is_100) =>
        /\ last_op.result \in {"true", "false"}
        /\ last_op.result = "true" <=>
               /\ s_health \in DOMAIN variables
               /\ variables[s_health] \in {IntVal(100), FloatVal(<<"1", "0", "0", ".", "0">>)}

\* the tokens by which the grammar's forms are told apart
FormTokens == {<<" ", "a", "n", "d", " ">>, <<" ", "o", "r", " ">>, <<"=", "=">>, <<">">>, <<"<">>, <<"h", "a", "s", "_", "f", "l", "a", "g">>, <<"h", "a", "s", "_", "i", "t", "e", "m">>, <<".">>}

\* the expression has one of the forms of the grammar
Recognised(condition) ==
    \/ \E token \in FormTokens : FindSub(condition, token) # 0
    \/ StartsWith(condition, <<"!">>)
    \/ StartsWith(condition, <<"e", "x", "i", "s", "t", "s", ":">>)

\* C20: evaluate_condition returns true for an empty or absent expression and
\* for every expression whose form is not one of the recognised forms of the
\* grammar, and does not change the state store.
C20_FailOpen ==
    [][(last_op'.op = "evaluate_condition" /\ ~Recognised(last_op'.arg)) =>
          (last_op'.result = "true" /\ UNCHANGED storeVars)]_vars

\* C20 witness: an expression of no recognised form, not empty, has just been
\* evaluated in a state with variables and flags
C20_Witness ==
    /\ last_op.op = "evaluate_condition"
    /\ last_op.arg # << >>
    /\ ~Recognised(last_op.arg)
    /\ variables # << >>
    /\ flags # {}


c_gold_gt_3 == <<"g", "o", "l", "d", " ", ">", " ", "3">>

\* C21: evaluate_condition never raises: an ordered comparison that refers to an
\* undefined variable or to an operand that is not a number is caught inside the
\* evaluator and evaluates to false.
C21_NeverRaises ==
    /\ last_op.op = "evaluate_condition" => last_op.result # "raise"
    /\ (last_op.op = "evaluate_condition" /\ last_op.arg = c_gold_gt_3 /\
        (s_gold \notin DOMAIN variables \/ variables[s_gold].kind = "str")) => last_op.result = "false"


-----------------------------------------------------------------------------
(* RandomManager: weighted tables, unique picks and ranges. *)

s_treasure == <<"t", "r", "e", "a", "s", "u", "r", "e">>
s_items == <<"i", "t", "e", "m", "s">>
s_empty == <<"e", "m", "p", "t", "y">>
s_cursed == <<"c", "u", "r", "s", "e", "d">>
s_scraps == <<"s", "c", "r", "a", "p", "s">>
s_gold_item == <<"g", "o", "l", "d">>
s_silver == <<"s", "i", "l", "v", "e", "r">>
s_sword == <<"s", "w", "o", "r", "d">>
s_shield == <<"s", "h", "i", "e", "l", "d">>
s_potion == <<"p", "o", "t", "i", "o", "n">>
s_rock == <<"r", "o", "c", "k">>
s_dust == <<"d", "u", "s", "t">>

\* the tables of the script: `tables` of parser.get_random_table_data()
RandomTableData ==
    (s_treasure :> <<[item |-> s_gold_item, weight |-> 5], [item |-> s_silver, weight |-> 3]>>) @@
    (s_items :> <<[item |-> s_sword, weight |-> 5], [item |-> s_shield, weight |-> 3], [item |-> s_potion, weight |-> 2]>>) @@
    (s_empty :> << >>) @@
    (s_cursed :> <<[item |-> s_rock, weight |-> 0], [item |-> s_dust, weight |-> 0]>>) @@
    (s_scraps :> <<[item |-> s_rock], [item |-> s_dust, weight |-> 2]>>)

TableNames == {s_treasure, s_items, s_empty, s_cursed, s_scraps, s_unknown}

\* entry.get('weight', 1)
Weight(entry) == IF "weight" \in DOMAIN entry THEN entry.weight ELSE 1

RECURSIVE TotalWeight(_)
\* the sum of the weights of the entries
TotalWeight(entries) == IF entries = << >> THEN 0 ELSE Weight(Head(entries)) + TotalWeight(Tail(entries))

RECURSIVE WeightedIndex(_, _, _, _)
\* the walk over the entries: the index of the first entry at which the
\* accumulated weight reaches the roll, 0 when the walk ends without one
WeightedIndex(entries, roll, current_weight, i) ==
    IF i > Len(entries) THEN 0
    ELSE IF roll <= current_weight + Weight(entries[i]) THEN i
    ELSE WeightedIndex(entries, roll, current_weight + Weight(entries[i]), i + 1)

\* the rolls random.uniform(0, total_weight) can return, on the whole numbers
Rolls(total_weight) == 0..total_weight

\* roll_weighted_table that returns the first entry whatever the roll
roll_weighted_table_first(tables, table_name, roll) ==
    IF table_name \notin DOMAIN tables \/ tables[table_name] = << >> \/ TotalWeight(tables[table_name]) <= 0
    THEN NoneVal
    ELSE StrVal(tables[table_name][1].item)

\* roll_weighted_table(table_name), roll being the value random.uniform returns
roll_weighted_table(tables, table_name, roll) ==
    IF table_name \notin DOMAIN tables THEN NoneVal
    ELSE LET entries == tables[table_name] IN
         IF entries = << >> THEN NoneVal
         ELSE IF TotalWeight(entries) <= 0 THEN NoneVal
         ELSE LET i == WeightedIndex(entries, roll, 0, 1) IN
              StrVal(entries[IF i = 0 THEN 1 ELSE i].item)

\* remaining_entries.remove(choice): the first entry equal to the choice goes
remove_choice_kept(remaining_entries, c) == remaining_entries

remove_choice(remaining_entries, c) ==
    RemoveAt(remaining_entries, CHOOSE j \in 1..Len(remaining_entries) :
                 /\ remaining_entries[j] = remaining_entries[c]
                 /\ \A k \in 1..(j - 1) : remaining_entries[k] # remaining_entries[c])

\* the indexes the draw of one round can choose: any entry when the weights are
\* invalid, else the entries a roll of random.uniform(0, total_weight) selects
Choices(remaining_entries) ==
    IF TotalWeight(remaining_entries) <= 0 THEN 1..Len(remaining_entries)
    ELSE {LET i == WeightedIndex(remaining_entries, roll, 0, 1) IN IF i = 0 THEN 1 ELSE i :
              roll \in Rolls(TotalWeight(remaining_entries))}

RECURSIVE PickRounds(_, _)
\* the lists `selected` that the loop of pick_unique_items can build in `rounds`
\* rounds from the remaining entries
PickRounds(remaining_entries, rounds) ==
    IF rounds <= 0 \/ remaining_entries = << >> THEN {<< >>}
    ELSE UNION {{<<remaining_entries[c].item>> \o rest :
                     rest \in PickRounds(remove_choice(remaining_entries, c), rounds - 1)} :
                c \in Choices(remaining_entries)}

\* pick_unique_items(table_name, count, exclude): the lists it can return
pick_unique_items(tables, table_name, count, exclude) ==
    IF table_name \notin DOMAIN tables THEN {<< >>}
    ELSE LET entries == tables[table_name]
             available_entries == SelectSeq(entries, LAMBDA e : \A k \in 1..Len(exclude) : exclude[k] # e.item)
         IN IF entries = << >> THEN {<< >>}
            ELSE IF Len(available_entries) <= count THEN {[k \in 1..Len(available_entries) |-> available_entries[k].item]}
            ELSE PickRounds(available_entries, count)

\* roll_random_range(range_str) for range strings without a decimal point: the
\* values it can return (int(random.uniform(min, max)) for a range)
roll_random_range(range_str) ==
    IF IndexOf(range_str, "-") = 0
    THEN {IF ParseNumber(range_str).ok THEN IntVal(ParseNumber(range_str).n) ELSE IntVal(0)}
    ELSE LET parts == Split(range_str, <<"-">>) IN
         IF Len(parts) # 2 \/ ~ParseNumber(parts[1]).ok \/ ~ParseNumber(parts[2]).ok THEN {IntVal(0)}
         ELSE LET a == ParseNumber(parts[1]).n
                  b == ParseNumber(parts[2]).n
              IN {IntVal(n) : n \in (IF a > b THEN b ELSE a)..(IF a > b THEN a ELSE b)}

MaxCount == 3

Excludes == {<< >>, <<s_sword>>, <<s_sword, s_potion>>, <<s_rock>>}

RangeStrings == {<<"2", "-", "4">>, <<"4", "-", "2">>, <<"7">>, <<"i", "n", "v", "a", "l", "i", "d">>, <<"1", "-", "2", "-", "3">>, <<"-", "5">>, <<"3", " ", "-", " ", "3">>, <<>>}

\* load_random_tables()
LoadRandomTables ==
    /\ random_tables' = RandomTableData
    /\ last_op' = Op("load_random_tables", << >>, "none")
    /\ UNCHANGED <<defVars, now, persistVars, effVars, storeVars, smVars, evVars, cmdVars, loopVars>>

\* roll_weighted_table(table_name)
RollWeightedTable(table_name) ==
    \E roll \in Rolls(IF table_name \in DOMAIN random_tables THEN TotalWeight(random_tables[table_name]) ELSE 0) :
        /\ last_op' = Op("roll_weighted_table", [table_name |-> table_name, roll |-> roll],
                         roll_weighted_table(random_tables, table_name, roll))
        /\ UNCHANGED <<defVars, now, rndVars, persistVars, effVars, storeVars, smVars, evVars, cmdVars, loopVars>>

\* pick_unique_items(table_name, count, exclude)
PickUniqueItems(table_name, count, exclude) ==
    \E selected \in pick_unique_items(random_tables, table_name, count, exclude) :
        /\ last_op' = Op("pick_unique_items", [table_name |-> table_name, count |-> count, exclude |-> exclude], selected)
        /\ UNCHANGED <<defVars, now, rndVars, persistVars, effVars, storeVars, smVars, evVars, cmdVars, loopVars>>

\* roll_random_range(range_str)
RollRandomRange(range_str) ==
    \E result \in roll_random_range(range_str) :
        /\ last_op' = Op("roll_random_range", range_str, result)
        /\ UNCHANGED <<defVars, now, rndVars, persistVars, effVars, storeVars, smVars, evVars, cmdVars, loopVars>>

NextRandom ==
    \/ LoadRandomTables
    \/ \E table_name \in TableNames : RollWeightedTable(table_name)
    \/ \E table_name \in TableNames, count \in 0..MaxCount, exclude \in Excludes : PickUniqueItems(table_name, count, exclude)
    \/ \E range_str \in RangeStrings : RollRandomRange(range_str)

SpecRandom == InitE /\ [][NextRandom]_vars

RECURSIVE CumulativeWeight(_, _)
\* the weight accumulated over the first k entries
CumulativeWeight(entries, k) == IF k = 0 THEN 0 ELSE CumulativeWeight(entries, k - 1) + Weight(entries[k])

\* C22: for a table of positive total weight and a draw u in [0, total weight],
\* roll_weighted_table returns the first entry, in table order, whose cumulative
\* weight is at least u; with the weights [5, 3], u = 2 selects the first entry
\* and u = 6 the second.
C22_FirstCumulativeReachingRoll ==
    (/\ last_op.op = "roll_weighted_table"
     /\ last_op.arg.table_name \in DOMAIN random_tables
     /\ TotalWeight(random_tables[last_op.arg.table_name]) > 0) =>
        LET entries == random_tables[last_op.arg.table_name]
            u == last_op.arg.roll
        IN /\ \E k \in 1..Len(entries) :
                  /\ CumulativeWeight(entries, k) >= u
                  /\ \A j \in 1..(k - 1) : CumulativeWeight(entries, j) < u
                  /\ last_op.result = StrVal(entries[k].item)
           /\ (last_op.arg.table_name = s_treasure /\ u = 2) => last_op.result = StrVal(s_gold_item)
           /\ (last_op.arg.table_name = s_treasure /\ u = 6) => last_op.result = StrVal(s_silver)

\* C22 witness: the roll 6 on the table with the weights [5, 3] has selected the
\* second entry
C22_Witness ==
    /\ last_op.op = "roll_weighted_table"
    /\ last_op.arg = [table_name |-> s_treasure, roll |-> 6]
    /\ last_op.result = StrVal(s_silver)


\* the table is missing, has no entries or has a total weight that is not positive
NothingToSelect(table_name) ==
    \/ table_name \notin DOMAIN random_tables
    \/ random_tables[table_name] = << >>
    \/ TotalWeight(random_tables[table_name]) <= 0

\* C23: roll_weighted_table, pick_unique_items and roll_random_range never
\* raise: for a missing table, a table with no entries or a total weight that is
\* not positive, roll_weighted_table returns None and pick_unique_items the empty
\* list, selecting nothing, and roll_random_range returns 0 for a string that
\* is no range.
C23_FailSoft ==
    /\ (last_op.op = "roll_weighted_table" /\ NothingToSelect(last_op.arg.table_name)) => last_op.result = NoneVal
    /\ (last_op.op = "pick_unique_items" /\ NothingToSelect(last_op.arg.table_name)) => last_op.result = << >>
    /\ (last_op.op = "roll_random_range" /\ last_op.arg = <<"i", "n", "v", "a", "l", "i", "d">>) => last_op.result = IntVal(0)


\* the number of positions of seq that hold x
Occurrences(seq, x) == Cardinality({k \in 1..Len(seq) : seq[k] = x})

\* the entries of the table whose item is not excluded
NonExcluded(table_name, exclude) ==
    SelectSeq(random_tables[table_name], LAMBDA e : \A k \in 1..Len(exclude) : exclude[k] # e.item)

\* C24: pick_unique_items(table, n, exclude) returns exactly min(n, number of
\* entries that are not excluded) items, draws each entry of the table at most
\* once and never returns an item listed in exclude.
C24_PickUnique ==
    (last_op.op = "pick_unique_items" /\ last_op.arg.table_name \in DOMAIN random_tables) =>
        LET pool == NonExcluded(last_op.arg.table_name, last_op.arg.exclude)
            selected == last_op.result
        IN /\ Len(selected) = IF last_op.arg.count < Len(pool) THEN last_op.arg.count ELSE Len(pool)
           /\ \A k \in 1..Len(selected) :
                  /\ Occurrences(selected, selected[k]) <= Cardinality({j \in 1..Len(pool) : pool[j].item = selected[k]})
                  /\ \A x \in 1..Len(last_op.arg.exclude) : last_op.arg.exclude[x] # selected[k]

\* C24 witness: one item was asked for with one of the three items excluded, and
\* it was drawn by weight from the remaining two
C24_Witness ==
    /\ last_op.op = "pick_unique_items"
    /\ last_op.arg = [table_name |-> s_items, count |-> 1, exclude |-> <<s_sword>>]
    /\ last_op.result = <<s_potion>>


-----------------------------------------------------------------------------
(* The state manager driven through its public operations. *)

StateKeys == {s_health}

StateValues == {IntVal(80), StrVal(<<"8", "0">>), FloatVal(<<"1", ".", "5">>)}

StateFlags == {s_key, s_power}

\* set_variable(key, value)
StateSetVariable(key, value) ==
    /\ variables' = set_variable(variables, key, value)
    /\ last_op' = Op("set_variable", key, "none")
    /\ UNCHANGED <<defVars, rndVars, persistVars, now, effVars, flags, current_scene, smVars, evVars, cmdVars, loopVars>>

\* set_flag(flag), whether or not the flag is set
StateSetFlag(flag) ==
    /\ flags' = set_flag(flags, flag)
    /\ last_op' = Op("set_flag", flag, "none")
    /\ UNCHANGED <<defVars, rndVars, persistVars, now, effVars, variables, current_scene, smVars, evVars, cmdVars, loopVars>>

\* clear_flag(flag), whether or not the flag is set
StateClearFlag(flag) ==
    /\ flags' = clear_flag(flags, flag)
    /\ last_op' = Op("clear_flag", flag, "none")
    /\ UNCHANGED <<defVars, rndVars, persistVars, now, effVars, variables, current_scene, smVars, evVars, cmdVars, loopVars>>

\* set_current_scene(scene_id)
StateSetCurrentScene(scene_id) ==
    /\ current_scene' = scene_id
    /\ last_op' = Op("set_current_scene", scene_id, "none")
    /\ UNCHANGED <<defVars, rndVars, persistVars, now, effVars, variables, flags, smVars, evVars, cmdVars, loopVars>>

\* StateManager.apply_effect(effect_name, effect_data)
StateApplyEffect(effect_name) ==
    /\ state_effects' = state_apply_effect(state_effects, effect_name, StateEffectData[effect_name])
    /\ aliased' = aliased \ {effect_name}
    /\ last_op' = Op("apply_effect", effect_name, "none")
    /\ UNCHANGED <<parserVars, rndVars, save_file, now, effVars, storeVars, smVars, evVars, cmdVars, loopVars>>

\* StateManager.remove_effect(effect_name)
StateRemoveEffect(effect_name) ==
    /\ state_effects' = state_remove_effect(state_effects, effect_name)
    /\ aliased' = aliased \ {effect_name}
    /\ last_op' = Op("remove_effect", effect_name, "none")
    /\ UNCHANGED <<parserVars, rndVars, save_file, now, effVars, storeVars, smVars, evVars, cmdVars, loopVars>>

\* StateManager.update_effects()
StateUpdateEffects ==
    /\ state_effects' = state_update_effects(state_effects)
    /\ effect_defs' = defs_after_update(effect_defs, state_effects, aliased)
    /\ aliased' = aliased \cap StateEffectNames(state_effects')
    /\ last_op' = Op("update_effects", << >>, IF state_update_raises(state_effects) THEN "raise" ELSE "none")
    /\ UNCHANGED <<object_defs, rndVars, save_file, now, effVars, storeVars, smVars, evVars, cmdVars, loopVars>>

\* save_game()
SaveGame ==
    \E flag_list \in FlagLists(flags) :
        /\ save_file' = save_game(save_file, Store(variables, flags, current_scene), state_effects, flag_list)
        /\ last_op' = Op("save_game", << >>, "none")
        /\ UNCHANGED <<defVars, rndVars, state_effects, now, effVars, storeVars, smVars, evVars, cmdVars, loopVars>>

\* load_game(), by this store or by a fresh StateManager on the same file
LoadGame ==
    \E r \in {load_game(save_file, Store(variables, flags, current_scene), state_effects)} :
        /\ variables' = r.st.variables
        /\ flags' = r.st.flags
        /\ current_scene' = r.st.scene
        /\ state_effects' = r.effs
        /\ aliased' = IF r.result THEN {} ELSE aliased
        /\ last_op' = Op("load_game", << >>, BoolStr(r.result))
        /\ UNCHANGED <<parserVars, rndVars, save_file, now, effVars, smVars, evVars, cmdVars, loopVars>>

\* reset()
Reset ==
    /\ variables' = << >>
    /\ flags' = {}
    /\ current_scene' = << >>
    /\ state_effects' = << >>
    /\ aliased' = {}
    /\ last_op' = Op("reset", << >>, "none")
    /\ UNCHANGED <<parserVars, rndVars, save_file, now, effVars, smVars, evVars, cmdVars, loopVars>>

NextState ==
    \/ \E key \in StateKeys, value \in StateValues : StateSetVariable(key, value)
    \/ \E flag \in StateFlags : StateSetFlag(flag)
    \/ \E flag \in StateFlags : StateClearFlag(flag)
    \/ StateSetCurrentScene(s_hall)
    \/ \E effect_name \in DOMAIN StateEffectData : StateApplyEffect(effect_name)
    \/ \E effect_name \in DOMAIN StateEffectData : StateRemoveEffect(effect_name)
    \/ StateUpdateEffects
    \/ SaveGame
    \/ LoadGame
    \/ Reset

SpecState == InitE /\ [][NextState]_vars


\* StateManager.has_flag(flag)
has_flag(fs, flag) == flag \in fs

\* C27: saving the state store and loading the file into a fresh store yields a
\* store structurally equal to the original: the same variables with the same
\* values, the same flag set, the same current scene and the same active effects
\* with their remaining durations.
C27_SaveLoadRoundTrip ==
    last_op.op = "save_game" =>
        \E r \in {load_game(save_file, Store(<< >>, {}, << >>), << >>)} :
            /\ r.result
            /\ r.st.variables = variables
            /\ r.st.flags = flags
            /\ r.st.scene = current_scene
            /\ r.effs = state_effects

\* C27 witness: a store with a float variable, two flags, a scene and a timed
\* effect that has lost a turn next to a permanent one has just been saved
C27_Witness ==
    /\ last_op.op = "save_game"
    /\ s_health \in DOMAIN variables /\ variables[s_health].kind = "float"
    /\ flags = StateFlags
    /\ current_scene = s_hall
    /\ state_effects = <<[name |-> s_perm_buff, duration |-> IntVal(0)], [name |-> s_temp_buff, duration |-> IntVal(1)]>>

\* C28: set_flag(x) applied to a set that holds x leaves the flag set as it is,
\* clear_flag of an unset flag changes nothing, and has_flag(x) is true exactly
\* from a set_flag(x) until the next clear_flag(x), reset or load.
C28_FlagSet ==
    [][/\ last_op'.op = "set_flag" =>
              /\ has_flag(flags', last_op'.arg)
              /\ \A x \in StateFlags \ {last_op'.arg} : has_flag(flags', x) <=> has_flag(flags, x)
              /\ has_flag(flags, last_op'.arg) => flags' = flags
       /\ last_op'.op = "clear_flag" =>
              /\ ~has_flag(flags', last_op'.arg)
              /\ \A x \in StateFlags \ {last_op'.arg} : has_flag(flags', x) <=> has_flag(flags, x)
              /\ ~has_flag(flags, last_op'.arg) => flags' = flags
       /\ last_op'.op \notin {"set_flag", "clear_flag", "reset", "load_game"} =>
              \A x \in StateFlags : has_flag(flags', x) <=> has_flag(flags, x)]_vars

\* C28 witness: set_flag has just been applied while another flag is set
C28_Witness == last_op = Op("set_flag", s_key, "none") /\ flags = {s_key, s_power}


-----------------------------------------------------------------------------
(* Permanent effects in the effects manager and in the state manager. *)

NextPermanent ==
    \/ \E effect_name \in {s_aura, s_blessed} : ApplyEffect(effect_name, << >>)
    \/ \E effect_name \in {s_aura, s_blessed} : RemoveEffect(effect_name)
    \/ UpdateEffects
    \/ \E effect_name \in DOMAIN StateEffectData : StateApplyEffect(effect_name)
    \/ \E effect_name \in DOMAIN StateEffectData : StateRemoveEffect(effect_name)
    \/ StateUpdateEffects

SpecPermanent == InitE /\ [][NextPermanent]_vars

\* the effect is in the active set with the duration 0
Permanent(effs, name) == \E i \in 1..Len(effs) : effs[i].name = name /\ effs[i].duration = IntVal(0)

\* C29: an effect whose duration is 0 is permanent: no number of update calls
\* decrements it or removes it from the active set; it leaves the active set
\* only through an explicit remove.
C29_ZeroDurationIsPermanent ==
    [][/\ \A name \in EffectNames :
              (Permanent(active_effects, name) /\ ~(last_op'.op = "remove_effect" /\ last_op'.arg = name))
                  => Permanent(active_effects', name)
       /\ \A name \in DOMAIN StateEffectData :
              (Permanent(state_effects, name) /\ ~(last_op'.op = "remove_effect" /\ last_op'.arg = name))
                  => Permanent(state_effects', name)]_vars

\* C29 witness: after two update calls that let a timed effect expire next to
\* them, the permanent effects of both managers are still active with duration 0
C29_Witness ==
    /\ last_op.op = "update_effects"
    /\ active_effects = <<[name |-> s_aura, duration |-> IntVal(0), start_time |-> 0, target |-> s_player, last_tick |-> 0]>>
    /\ effect_hist[s_aura].updates >= 2 /\ effect_hist[s_blessed].updates >= 2
    /\ effect_runs[s_blessed].remove = 1
    /\ state_effects = <<[name |-> s_perm_buff, duration |-> IntVal(0)]>>


-----------------------------------------------------------------------------
(* EffectsManager.get_effect_modifier.  Numbers are in hundredths. *)

\* float(s) of a decimal string, in hundredths: digits, optionally followed by a
\* point and one or two digits; anything else raises ValueError
ParseHundredths(s) ==
    LET dot == IndexOf(s, ".") IN
    IF dot = 0 THEN [ok |-> IsDigits(s), n |-> IF IsDigits(s) THEN 100 * DigitsValue(s) ELSE 0]
    ELSE LET whole == SubSeq(s, 1, dot - 1)
             frac == Drop(s, dot)
         IN IF IsDigits(whole) /\ IsDigits(frac) /\ Len(frac) <= 2
            THEN [ok |-> TRUE, n |-> 100 * DigitsValue(whole) + (IF Len(frac) = 1 THEN 10 ELSE 1) * DigitsValue(frac)]
            ELSE [ok |-> FALSE, n |-> 0]

\* the multiplicative branch that multiplies the running total whatever it is
multiply_total(total_modifier, multiplier) == (total_modifier * multiplier) \div 100

\* the multiplicative branch (lines 164-168): a running total of 0.0 becomes the
\* multiplier, any other total is multiplied by it
multiply_modifier(total_modifier, multiplier) ==
    IF total_modifier = 0 THEN multiplier ELSE (total_modifier * multiplier) \div 100

\* the body of the loop for one modifier value
add_modifier(total, modifier_value) ==
    IF total.raised THEN total
    ELSE IF modifier_value.kind = "str"
    THEN (IF modifier_value.s # << >> /\ Head(modifier_value.s) \in {"*", "+", "-"}
          THEN LET number == ParseHundredths(Tail(modifier_value.s)) IN
               IF ~number.ok THEN [v |-> total.v, raised |-> TRUE]
               ELSE IF Head(modifier_value.s) = "*" THEN [total EXCEPT !.v = multiply_modifier(@, number.n)]
               ELSE IF Head(modifier_value.s) = "+" THEN [total EXCEPT !.v = @ + number.n]
               ELSE [total EXCEPT !.v = @ - number.n]
          ELSE total)
    ELSE IF modifier_value.kind \in {"int", "bool"} THEN [total EXCEPT !.v = @ + 100 * modifier_value.n]
    ELSE total

\* the modifiers of the stat carried by the active effects of the target, in dict order
StatModifiers(effs, stat_name, target) ==
    LET carrying == SelectSeq(effs, LAMBDA e : /\ target = None \/ e.target = target
                                               /\ stat_name \in DOMAIN Effects[e.name].modifiers)
    IN [i \in 1..Len(carrying) |-> Effects[carrying[i].name].modifiers[stat_name]]

RECURSIVE FoldModifiers(_, _)
FoldModifiers(total, modifier_values) ==
    IF modifier_values = << >> THEN total
    ELSE FoldModifiers(add_modifier(total, Head(modifier_values)), Tail(modifier_values))

\* get_effect_modifier(stat_name, target), in hundredths
get_effect_modifier(effs, stat_name, target) ==
    FoldModifiers([v |-> 0, raised |-> FALSE], StatModifiers(effs, stat_name, target))

\* get_effect_modifier(stat_name, target)
GetEffectModifier(stat_name, target) ==
    \E r \in {get_effect_modifier(active_effects, stat_name, target)} :
        /\ last_op' = Op("get_effect_modifier", [stat_name |-> stat_name, target |-> target],
                         IF r.raised THEN [raised |-> TRUE, v |-> 0] ELSE [raised |-> FALSE, v |-> r.v])
        /\ UNCHANGED <<defVars, rndVars, persistVars, now, effVars, storeVars, smVars, evVars, cmdVars, loopVars>>

NextModifier ==
    \/ \E effect_name \in EffectNames, target \in {<< >>, s_wolf} : ApplyEffect(effect_name, target)
    \/ \E effect_name \in EffectNames : RemoveEffect(effect_name)
    \/ \E stat_name \in {s_strength, s_speed}, target \in {None, s_player, s_wolf} : GetEffectModifier(stat_name, target)

SpecModifier == InitE /\ [][NextModifier]_vars

RECURSIVE ClaimedTotal(_, _)
\* the total the claim describes, in hundredths: additive modifiers are summed
\* and every multiplicative modifier multiplies the running total
ClaimedTotal(total, modifier_values) ==
    IF modifier_values = << >> THEN total
    ELSE LET m == Head(modifier_values) IN
         ClaimedTotal(IF m.kind = "int" THEN total + 100 * m.n
                      ELSE IF Head(m.s) = "*" THEN (total * ParseHundredths(Tail(m.s)).n) \div 100
                      ELSE IF Head(m.s) = "+" THEN total + ParseHundredths(Tail(m.s)).n
                      ELSE total - ParseHundredths(Tail(m.s)).n,
                      Tail(modifier_values))

\* C30: get_effect_modifier sums the additive modifiers (+N, -N, plain numbers)
\* and, for each multiplicative modifier *N, multiplies the running total by N;
\* a stat whose only modifier is a single *1.5 therefore yields 0.0.
C30_ModifierTotal ==
    last_op.op = "get_effect_modifier" =>
        /\ ~last_op.result.raised
        /\ last_op.result.v = ClaimedTotal(0, StatModifiers(active_effects, last_op.arg.stat_name, last_op.arg.target))

-----------------------------------------------------------------------------
(* The apply_effect, remove_effect and attack commands, and the parsed
   definitions they work on. *)

t_attack == <<"a", "t", "t", "a", "c", "k">>

\* attack_behavior.get('damage', '10'), evaluated
default_damage == 10

\* the objects parser.get_object finds
DefinedObjects == DOMAIN Objects \cup DOMAIN ObjectHealth

\* _execute_apply_effect(effect_name): the dict parser.get_effect returned is
\* handed to the state manager, nothing happens for an undefined effect
execute_apply_effect(effs, defs, effect_name) ==
    IF effect_name \notin DOMAIN defs THEN effs
    ELSE state_apply_effect(effs, effect_name, [duration |-> defs[effect_name]])

\* _execute_attack(target), the object definitions it leaves: a hit lowers the
\* value of the `health` state in the dict parser.get_object returned
execute_attack(objs, target, hit) ==
    IF target \in DefinedObjects /\ hit /\ target \in DOMAIN objs
    THEN [objs EXCEPT ![target] = Max(0, @ - default_damage)]
    ELSE objs

\* execute_commands([{apply_effect: effect_name}])
ExecuteApplyEffect(effect_name) ==
    /\ state_effects' = execute_apply_effect(state_effects, effect_defs, effect_name)
    /\ aliased' = IF effect_name \in DOMAIN effect_defs THEN aliased \cup {effect_name} ELSE aliased
    /\ executed' = <<Entry(<<1>>, t_apply_effect, "done", "none", "none")>>
    /\ last_op' = Op("command", [tag |-> t_apply_effect, arg |-> effect_name], "none")
    /\ UNCHANGED <<parserVars, rndVars, save_file, now, effVars, storeVars, smVars, evVars, loopVars>>

\* execute_commands([{remove_effect: effect_name}])
ExecuteRemoveEffect(effect_name) ==
    /\ state_effects' = state_remove_effect(state_effects, effect_name)
    /\ aliased' = aliased \ {effect_name}
    /\ executed' = <<Entry(<<1>>, t_remove_effect, "done", "none", "none")>>
    /\ last_op' = Op("command", [tag |-> t_remove_effect, arg |-> effect_name], "none")
    /\ UNCHANGED <<parserVars, rndVars, save_file, now, effVars, storeVars, smVars, evVars, loopVars>>

\* execute_commands([{attack: target}]); random.random() < hit_chance goes either way
ExecuteAttack(target) ==
    \E hit \in BOOLEAN :
        /\ object_defs' = execute_attack(object_defs, target, hit)
        /\ executed' = <<Entry(<<1>>, t_attack, "done", "none", "none")>>
        /\ last_op' = Op("command", [tag |-> t_attack, arg |-> target],
                         IF target \notin DefinedObjects THEN "none" ELSE IF hit THEN "hit" ELSE "miss")
        /\ UNCHANGED <<effect_defs, aliased, rndVars, persistVars, now, effVars, storeVars, smVars, evVars, loopVars>>

NextDefs ==
    \/ \E effect_name \in EffectNames \cup {s_unknown} : ExecuteApplyEffect(effect_name)
    \/ \E effect_name \in EffectNames : ExecuteRemoveEffect(effect_name)
    \/ \E target \in {s_wolf, s_lamp, s_ghost} : ExecuteAttack(target)
    \/ \E effect_name \in DOMAIN StateEffectData : StateApplyEffect(effect_name)
    \/ StateUpdateEffects

SpecDefs == InitE /\ [][NextDefs]_vars

\* C31: executing commands and updating effects changes only the state store:
\* the parsed effect definitions and object definitions are the same after any
\* step as before it.
C31_DefinitionsUnchanged == [][effect_defs' = effect_defs /\ object_defs' = object_defs]_vars

\* the attack command has lowered the health the wolf's definition declares, and
\* an update of the state manager's effects has shortened the duration the
\* definition of `poisoned` declares
C31_DefinitionsChanged ==
    /\ object_defs[s_wolf] < ObjectHealth[s_wolf]
    /\ effect_defs[s_poisoned] # Effects[s_poisoned].duration

-----------------------------------------------------------------------------
(* Enabling and disabling events by id, for a script whose two pools both
   declare an event called `dawn`. *)

\* parser.get_events()['reactive_events'] of that script, after _process_event_data
SharedIdReactiveEvents ==
    <<ReactiveEvent(s_dawn, <<"s", "c", "e", "n", "e", ".", "c", "h", "a", "n", "g", "e">>, << >>, <<<<"s", "e", "t", "_", "f", "l", "a", "g", ":", "s", "e", "e", "n">>>>, "medium"),
      ReactiveEvent(s_herald, <<"c", "u", "s", "t", "o", "m", ".", "b", "a", "t", "t", "l", "e">>, << >>, <<<<"l", "o", "g", ":", "b", "a", "t", "t", "l", "e">>>>, "high")>>

\* EventManager.__init__ on that script
InitManage ==
    /\ InitEffects /\ InitStore /\ InitMachines /\ InitCommands /\ InitRandom /\ InitPersist /\ InitDefs /\ InitLoop
    /\ scheduled_events = sort_events_by_priority(RawScheduledEvents)
    /\ reactive_events = sort_events_by_priority(SharedIdReactiveEvents)
    /\ fired = << >>
    /\ reacted = << >>
    /\ last_op = NoOp

ManagedIds == {s_dawn, s_owl, s_herald, s_unknown}

NextManage ==
    \/ CheckScheduledEvents
    \/ UpdateGameTime(100)
    \/ \E check \in {c \in ReactiveChecks : c.trigger_type \in {"scene_change", "custom"}} : CheckReactiveEvents(check)
    \/ \E event_id \in ManagedIds, enabled \in BOOLEAN : SetEventEnabled(event_id, enabled)

SpecManage == InitManage /\ [][NextManage]_vars

\* the events of a pool that carry the id
Carrying(events, id) == {i \in 1..Len(events) : events[i].id = id}

\* every id in the list of fired ids is the id of an enabled event of the pool
OnlyEnabledFired(events, ids) ==
    \A k \in 1..Len(ids) : \E i \in Carrying(events, ids[k]) : events[i].enabled

\* no event of the pool went from disabled to enabled, except those carrying the id
EnabledOnlyFor(before, after, ids) ==
    /\ Len(after) = Len(before)
    /\ \A i \in 1..Len(before) : (after[i].enabled /\ ~before[i].enabled) => before[i].id \in ids

\* C32: after disable_event(id) returned true no event carrying the id fires in
\* a scheduled or reactive check until enable_event(id) is called: the call
\* leaves every event carrying the id disabled, only enable_event(id) enables an
\* event carrying the id again, and a check fires enabled events only.  A call
\* of enable_event / disable_event with an id no event carries returns false and
\* changes no event.
C32_DisabledEventsStaySilent ==
    [][/\ (last_op'.op = "disable_event" /\ last_op'.result = "true") =>
              /\ \A i \in Carrying(scheduled_events', last_op'.arg) : ~scheduled_events'[i].enabled
              /\ \A i \in Carrying(reactive_events', last_op'.arg) : ~reactive_events'[i].enabled
       /\ LET ids == IF last_op'.op = "enable_event" THEN {last_op'.arg} ELSE {}
          IN EnabledOnlyFor(scheduled_events, scheduled_events', ids) /\ EnabledOnlyFor(reactive_events, reactive_events', ids)
       /\ last_op'.op = "check_scheduled_events" => OnlyEnabledFired(scheduled_events, fired')
       /\ last_op'.op = "check_reactive_events" => OnlyEnabledFired(reactive_events, reacted')
       /\ (last_op'.op \in {"enable_event", "disable_event"} /\ last_op'.result = "false") =>
              /\ Carrying(scheduled_events, last_op'.arg) \cup Carrying(reactive_events, last_op'.arg) = {}
              /\ scheduled_events' = scheduled_events
              /\ reactive_events' = reactive_events
       /\ (last_op'.op \in {"enable_event", "disable_event"} /\ last_op'.result = "true") =>
              Carrying(scheduled_events, last_op'.arg) \cup Carrying(reactive_events, last_op'.arg) # {}]_vars

-----------------------------------------------------------------------------
(* A scheduled check in which the action of an event fails. *)

\* the game time the check read
GameTimeOf(vs) == get_variable(vs, s_game_time, IntVal(0)).n

\* no trigger of an enabled event of the pool fails to evaluate at that game time
TriggersEvaluate(events, game_time) ==
    \A i \in 1..Len(events) : events[i].enabled => ~check_time_trigger(events[i].trigger, game_time).raised

\* the enabled events whose trigger holds at that game time, that fire whatever
\* the draw is, and whose own action does not fail
DueEvents(st, events, game_time) ==
    {i \in 1..Len(events) :
        /\ events[i].enabled
        /\ check_time_trigger(events[i].trigger, game_time) = CondResult(TRUE)
        /\ events[i].chance = 100
        /\ ~execute_event_action(st, events[i].action).raised}

\* C33: within one scheduled check an action that fails while one event fires
\* does not prevent the events after it in the pool from being evaluated and
\* fired in the same check: every enabled event whose trigger holds and whose
\* chance is 1.0 has fired when the check is over.
C33_FailingActionDoesNotStopCheck ==
    [][(/\ last_op'.op \in {"check_scheduled_events", "update_game_time"}
        /\ TriggersEvaluate(scheduled_events, GameTimeOf(variables')))
          => \A i \in DueEvents(Store(variables', flags, current_scene), scheduled_events, GameTimeOf(variables')) :
                 FiredCount(scheduled_events[i].id)' = 1]_vars

-----------------------------------------------------------------------------
(* The action executor driven with single action strings. *)

ActionStrings ==
    {<<"a", "d", "d", "_", "f", "l", "a", "g", ":", "k", "e", "y">>, <<"c", "l", "e", "a", "r", "_", "f", "l", "a", "g", ":", "k", "e", "y">>, <<"r", "e", "m", "o", "v", "e", "_", "f", "l", "a", "g", ":", "k", "e", "y">>, <<"a", "d", "d", "_", "f", "l", "a", "g", ":", "p", "o", "w", "e", "r">>, <<"c", "l", "e", "a", "r", "_", "f", "l", "a", "g", ":", "p", "o", "w", "e", "r">>, <<"r", "e", "m", "o", "v", "e", "_", "f", "l", "a", "g", ":", "p", "o", "w", "e", "r">>,
     <<"a", "d", "d", "_", "f", "l", "a", "g", ":", "v", "i", "p">>, <<"s", "e", "t", ":", "g", "o", "l", "d", " ", "=", " ", "5">>, <<"b", "r", "o", "a", "d", "c", "a", "s", "t", ":", "h", "e", "l", "l", "o">>, <<"l", "o", "g", ":", "h", "e", "l", "l", "o">>, <<"d", "a", "n", "c", "e">>}

\* ActionExecutor.execute_action(action)
ExecuteActionString(action) ==
    \E r \in {ExecuteAction(Store(variables, flags, current_scene), action)} :
        /\ variables' = r.variables
        /\ flags' = r.flags
        /\ current_scene' = r.scene
        /\ last_op' = Op("execute_action", action, IF r.raised THEN "raise" ELSE "none")
        /\ UNCHANGED <<defVars, rndVars, persistVars, now, effVars, smVars, evVars, cmdVars, loopVars>>

NextAction == \E action \in ActionStrings : ExecuteActionString(action)

SpecAction == InitE /\ [][NextAction]_vars

\* the parameter of an action string: what follows its first colon
ActionParameter(action) == Strip(Drop(action, FindSub(action, <<":">>)))

\* C34: executing the action string `clear_flag:F` or `remove_flag:F` leaves flag
\* F unset in the state store and changes no other flag; so after `add_flag:F`
\* and then `clear_flag:F` has_flag(F) is false.
C34_ClearFlagUnsetsFlag ==
    [][(/\ last_op'.op = "execute_action"
        /\ (StartsWith(last_op'.arg, <<"c", "l", "e", "a", "r", "_", "f", "l", "a", "g", ":">>) \/ StartsWith(last_op'.arg, <<"r", "e", "m", "o", "v", "e", "_", "f", "l", "a", "g", ":">>)))
          => /\ ~has_flag(flags', ActionParameter(last_op'.arg))
             /\ flags' \ {ActionParameter(last_op'.arg)} = flags \ {ActionParameter(last_op'.arg)}]_vars

-----------------------------------------------------------------------------
(* The remaining durations of the active effects. *)

\* C35: in every reachable state the remaining duration of each active effect is
\* a non-negative integer, also after the effect was applied again while active
\* and whatever form (integer or "N unit" string) its declared duration has.
C35_DurationsAreNonNegativeIntegers ==
    \A i \in 1..Len(active_effects) :
        active_effects[i].duration.kind = "int" /\ active_effects[i].duration.n >= 0


\* get_active_effects(target): the instances of the target, all of them for no target
get_active_effects(effs, target) ==
    IF target = << >> THEN effs ELSE SelectSeq(effs, LAMBDA e : e.target = target)

\* has_effect(effect_name, target)
has_effect(effs, effect_name, target) == IsActive(get_active_effects(effs, target), effect_name)

\* C36: whenever apply_effect(name, target) returns true, has_effect(name, target)
\* is true immediately afterwards, also when the effect is already active on
\* another target.
C36_AppliedEffectIsOnTarget ==
    [][\A effect_name \in TimedEffectNames, target \in {<< >>, s_wolf} :
           (ApplyEffect(effect_name, target) /\ last_op'.result = "true")
               => has_effect(active_effects', effect_name, target)]_vars

-----------------------------------------------------------------------------
(* The turn loop and the effects the apply_effect command applies. *)

\* the rest of a loop iteration for a script whose current scene offers the
\* choice {commands: [{apply_effect: effect_name}]} without `next`, when the
\* player takes it: process_choice returns (None, []) and the loop counts the
\* choice as invalid
ChoiceAppliesEffect(effect_name) ==
    /\ loop.pc = "wait"
    /\ state_effects' = execute_apply_effect(state_effects, effect_defs, effect_name)
    /\ aliased' = IF effect_name \in DOMAIN effect_defs THEN aliased \cup {effect_name} ELSE aliased
    /\ executed' = <<Entry(<<1>>, t_apply_effect, "done", "none", "none")>>
    /\ turn_log' = turn_log \o <<"get_player_choice", "process_choice">>
    /\ loop' = [loop EXCEPT !.pc = IF loop.invalid_choice_count + 1 >= max_invalid_choices THEN "done" ELSE "top",
                            !.invalid_choice_count = @ + 1, !.errors = 0]
    /\ last_op' = Op("loop_choice_command", [tag |-> t_apply_effect, arg |-> effect_name], "none")
    /\ UNCHANGED <<parserVars, rndVars, save_file, now, effVars, storeVars, smVars, evVars>>

NextTurn ==
    \/ RunGame
    \/ LoopBegin
    \/ \E choice_index \in ChoiceIndexes : LoopChoice(choice_index)
    \/ \E effect_name \in EffectNames : ChoiceAppliesEffect(effect_name)

SpecTurn == InitE /\ [][NextTurn]_vars

\* C37: an effect applied by the `apply_effect` command with duration d > 0 is
\* decremented by the per-turn effects update of the turn loop and is no longer
\* active after d turns: the update at the top of an iteration leaves it with
\* one turn less, and without it when one turn was left.
C37_CommandEffectsRunOut ==
    [][(last_op'.op = "loop_begin" /\ last_op'.result = "none") =>
          \A i \in 1..Len(state_effects) :
              (state_effects[i].duration.kind = "int" /\ state_effects[i].duration.n > 0) =>
                  \/ /\ state_effects[i].duration.n = 1
                     /\ StateEffectIndex(state_effects', state_effects[i].name) = 0
                  \/ /\ state_effects[i].duration.n > 1
                     /\ StateEffectIndex(state_effects', state_effects[i].name) # 0
                     /\ state_effects'[StateEffectIndex(state_effects', state_effects[i].name)].duration
                            = IntVal(state_effects[i].duration.n - 1)]_vars

-----------------------------------------------------------------------------
(* The choices a scene shows and the choices process_choice indexes. *)

NextScene ==
    \/ \E start_scene \in {s_hall, s_gate} : RunGameFrom(start_scene)
    \/ LoopBegin
    \/ \E choice_index \in ChoiceIndexes : LoopChoice(choice_index)

SpecScene == InitE /\ [][NextScene]_vars

\* C38: the choice executed for a selected index is the choice shown at that
\* index in the most recently rendered scene: while the loop waits for the
\* player, the list process_choice indexes is the choice list the preceding
\* execute_scene returned.
C38_ProcessedListIsShownList ==
    loop.pc = "wait" =>
        AvailableChoices(Store(variables, flags, current_scene)) = [choices |-> loop.scene_data, raised |-> FALSE]


\* the step is an iteration of the loop that executed the scene current_scene_id
ExecutesScene == last_op'.op = "loop_begin" /\ \E k \in 1..Len(turn_log') : turn_log'[k] = "execute_scene"

\* C39: the commands of a scene run exactly once each time the scene is entered:
\* an iteration of the loop executes the scene when the loop's scene is not the
\* scene the player is in, and when a choice left the player in the same scene
\* the scene's commands are not executed again.
C39_SceneCommandsOncePerEntry ==
    [][/\ ExecutesScene => current_scene # loop.current_scene_id
       /\ (last_op'.op = "loop_begin" /\ last_op'.result = "none" /\ current_scene # loop.current_scene_id)
              => ExecutesScene]_vars


\* the choice the step processed was one of the choices process_choice offered
ValidChoice ==
    /\ ~AvailableChoices(Store(variables, flags, current_scene)).raised
    /\ 0 <= last_op'.arg
    /\ last_op'.arg < Len(AvailableChoices(Store(variables, flags, current_scene)).choices)

\* C40: the turn loop ends for too many invalid choices exactly when 5 invalid
\* choices were made in a row: a valid choice, with or without a scene change,
\* restarts the count and does not end the loop, an invalid choice adds one to
\* the count, and the loop ends with the choice that makes the count 5.
C40_FiveInvalidChoicesInARow ==
    [][(last_op'.op = "loop_choice" /\ last_op'.arg # -1 /\ last_op'.result = "none") =>
          IF ValidChoice
          THEN loop'.invalid_choice_count = 0 /\ loop'.pc # "done"
          ELSE /\ loop'.invalid_choice_count = loop.invalid_choice_count + 1
               /\ loop'.pc = "done" <=> loop'.invalid_choice_count = max_invalid_choices]_vars

====
